---- MODULE Spec2Model ----
(***************************************************************************)
(* Smart-locker admin dashboard: the write path of the Lockers page        *)
(* (create / delete / update price / toggle lock state), the bulk price    *)
(* apply of the Pricing page, and the live subscription that feeds the     *)
(* in-memory locker list of both pages.                                    *)
(*                                                                         *)
(* The document store is shared by several dashboard instances and by the  *)
(* external writers (firmware, mobile client).  A write issued by a        *)
(* dashboard is in flight (pending) until the store commits or rejects it; *)
(* the continuation after the handler's `await` runs in the same step.     *)
(*                                                                         *)
(* Strings that the code inspects character by character (the locker id,   *)
(* which is trimmed) are sequences of one-character strings.  Prices are   *)
(* in tenths of a dollar (2.0 is 20, 2.5 is 25).                           *)
(*                                                                         *)
(* The Analytics page subscribes to the reservations collection and        *)
(* derives its metrics from the list in memory; the metrics are operators  *)
(* over that list.                                                         *)
(***************************************************************************)
EXTENDS Integers, Sequences, FiniteSets, Bags, TLC

VARIABLES
    store,        \* lockers collection: key of each document -> its fields
    clock,        \* the server's clock, source of serverTimestamp()
    pending,      \* bag of the writes in flight between dashboards and store
    view,         \* the page each dashboard has mounted
    listening,    \* the mounted page's onSnapshot subscription is live
    lockers,      \* the mounted page's in-memory list: key -> row
    loading,      \* the mounted page's loading flag
    showAdd,      \* Lockers page: the add form is open
    form,         \* Lockers page: the add form
    globalPrice,  \* Pricing page: the price typed for the bulk apply
    saving,       \* Pricing page: the bulk apply's saving flag
    analytics,    \* Analytics page: its reservations, loading flag, listener
    ev            \* what the last step did and showed to the user

vars == <<store, clock, pending, view, listening, lockers, loading,
          showAdd, form, globalPrice, saving, analytics, ev>>

(***************************************************************************)
(* Bounds of the model.                                                    *)
(***************************************************************************)
MaxClock == 3      \* timestamps the server hands out
MaxPending == 2    \* writes in flight at once

Dashboards == {"d1", "d2"}
Views == {"lockers", "pricing"}

\* what an operator may type as locker id: nothing, blanks only, an id
\* with blanks around it, a clean id
FormIds == {<< >>, <<" ">>, <<" ", "A", " ">>, <<"A">>}
DoorStatuses == {"closed", "open"}
FormPrices == {20, 25}
BlurPrices == {0 - 5}
GlobalPrices == {30}

Null == "null"
None == "none"
ReservedUntil == "2030-01-01T00:00:00Z"

\* the sentinel serverTimestamp() puts in a write; the server replaces it
ServerTimestamp == 0 - 1
TimestampFields == {"lastUpdated"}

(***************************************************************************)
(* String.prototype.trim on a sequence of characters.                      *)
(***************************************************************************)
IsSpace(c) == c = " "

RECURSIVE TrimStart(_)
TrimStart(s) ==
    IF s = << >> THEN s
    ELSE IF IsSpace(Head(s)) THEN TrimStart(Tail(s)) ELSE s

RECURSIVE TrimEnd(_)
TrimEnd(s) ==
    IF s = << >> THEN s
    ELSE IF IsSpace(s[Len(s)]) THEN TrimEnd(SubSeq(s, 1, Len(s) - 1)) ELSE s

Trim(s) == TrimEnd(TrimStart(s))

\* the document keys the model can ever hold
LockerIds == {<<"A">>, <<"B">>}

(***************************************************************************)
(* Documents, rows and writes.  The store is a function from the keys of   *)
(* the documents that exist to their fields.                               *)
(***************************************************************************)
\* a locker document as an earlier create left it
SeedDoc(k) ==
    [id |-> k, label |-> k, location |-> "Unknown", status |-> "closed",
     lockState |-> 0, reservationUntil |-> Null, lastUpdated |-> 0,
     pricePerHour |-> 20, size |-> "M"]

EmptyStore == [k \in {} |-> SeedDoc(k)]
SeededStore == [k \in LockerIds |-> SeedDoc(k)]

OneLockerStore == [k \in {<<"A">>} |-> SeedDoc(k)]

\* a locker document from before the lock bit: lockState is optional
LegacyDoc(k) ==
    [id |-> k, label |-> k, location |-> "Unknown", status |-> "closed",
     reservationUntil |-> Null, lastUpdated |-> 0, pricePerHour |-> 20,
     size |-> "M"]

LegacyStore == [k \in {<<"A">>} |-> LegacyDoc(k)]

DefaultForm ==
    [id |-> << >>, label |-> << >>, location |-> "", doorStatus |-> "closed",
     pricePerHour |-> 20, size |-> "M"]

DefaultGlobalPrice == 20

\* a write in flight: the handler that issued it (by), the store call (op),
\* the dashboard, the document key, the payload, whether the component that
\* issued it is still mounted (live) and, for a bulk update, whether its
\* Promise.all is still unsettled (awaited)
Write(by, op, d, key, data, awaited) ==
    [by |-> by, op |-> op, d |-> d, key |-> key, data |-> data,
     live |-> TRUE, awaited |-> awaited]

\* what a step showed: the handler that asked or answered (kind); for a
\* settled write, the handler that had issued it (by); the answer to
\* confirm(); what alert() and console.error showed; whether a rejection
\* escaped unhandled
Event(kind, by, confirmed, alert, logged, unhandled) ==
    [kind |-> kind, by |-> by, confirmed |-> confirmed, alert |-> alert,
     logged |-> logged, unhandled |-> unhandled]

\* a step that asks and shows nothing
Quiet == Event(None, None, FALSE, None, FALSE, FALSE)

\* the writes in flight, as a set
InFlight == BagToSet(pending)

Issue(ws) == pending (+) SetToBag(ws)

Room(n) == BagCardinality(pending) + n <= MaxPending

\* how many elements of the bag B the set S of its elements stands for
RECURSIVE Copies(_, _)
Copies(B, S) ==
    IF S = {} THEN 0
    ELSE LET x == CHOOSE y \in S : TRUE
         IN  B[x] + Copies(B, S \ {x})

\* the bag B less one copy of w
Less(B, w) == B (-) SetToBag({w})

(***************************************************************************)
(* The subscription: every push carries the whole collection, and the     *)
(* page maps each document into the row shape it works with.               *)
(***************************************************************************)
\* a variant that keeps the wire names
RowFieldsAsStored ==
    [label |-> "label", location |-> "location", status |-> "status",
     lockState |-> "lockState", reservationUntil |-> "reservationUntil",
     lastUpdated |-> "lastUpdated", pricePerHour |-> "pricePerHour",
     size |-> "size"]

\* wire field -> row field of the Lockers page
RowFields ==
    [label |-> "label", location |-> "location", status |-> "doorStatus",
     lockState |-> "lockState", reservationUntil |-> "reservationUntil",
     lastUpdated |-> "lastUpdated", pricePerHour |-> "pricePerHour",
     size |-> "size"]

\* Lockers page: id from the document key, the other fields by name; a
\* field the document lacks is undefined in the row, that is, absent
LockerRow(k, data) ==
    LET wire == {f \in DOMAIN RowFields : f \in DOMAIN data}
        src(r) == CHOOSE f \in wire : RowFields[f] = r
    IN  [r \in {"id"} \cup {RowFields[f] : f \in wire} |->
            IF r = "id" THEN k ELSE data[src(r)]]

\* Pricing page: { id: d.id, ...d.data() }
PricingRow(k, data) ==
    [f \in {"id"} \cup DOMAIN data |-> IF f \in DOMAIN data THEN data[f] ELSE k]

Snapshot(page, docs) ==
    [k \in DOMAIN docs |->
        IF page = "lockers" THEN LockerRow(k, docs[k]) ELSE PricingRow(k, docs[k])]

NoRows == [k \in {} |-> DefaultForm]

\* the success callback of onSnapshot: replace the list, clear loading
\* a variant that merges the push into the list: rows the push no longer
\* carries are kept
OnSnapshotMerged(d) ==
    /\ listening[d]
    /\ loading[d] \/ lockers[d] # Snapshot(view[d], store)
    /\ lockers' = [lockers EXCEPT ![d] =
                      [k \in DOMAIN @ \cup DOMAIN store |->
                          IF k \in DOMAIN store
                          THEN Snapshot(view[d], store)[k] ELSE @[k]]]
    /\ loading' = [loading EXCEPT ![d] = FALSE]
    /\ ev' = Quiet
    /\ UNCHANGED analytics
    /\ UNCHANGED <<store, clock, pending, view, listening, showAdd, form,
                   globalPrice, saving>>

OnSnapshot(d) ==
    /\ listening[d]
    /\ loading[d] \/ lockers[d] # Snapshot(view[d], store)
    /\ lockers' = [lockers EXCEPT ![d] = Snapshot(view[d], store)]
    /\ loading' = [loading EXCEPT ![d] = FALSE]
    /\ ev' = Quiet
    /\ UNCHANGED analytics
    /\ UNCHANGED <<store, clock, pending, view, listening, showAdd, form,
                   globalPrice, saving>>

\* the subscription fails: the Lockers page logs and clears loading, the
\* Pricing page passes no error callback; the listener is gone either way
SnapshotError(d) ==
    /\ listening[d]
    /\ listening' = [listening EXCEPT ![d] = FALSE]
    /\ IF view[d] = "lockers"
       THEN /\ loading' = [loading EXCEPT ![d] = FALSE]
            /\ ev' = Event("snapshotError", None, FALSE, None, TRUE, FALSE)
       ELSE /\ loading' = loading
            /\ ev' = Quiet
    /\ UNCHANGED analytics
    /\ UNCHANGED <<store, clock, pending, view, lockers, showAdd, form,
                   globalPrice, saving>>

\* the operator opens another page: the old page's cleanup releases its
\* subscription and its state is dropped, the new page mounts and
\* subscribes; continuations of the old page's writes find it unmounted
Unmounted(d, w) == IF w.d = d THEN [w EXCEPT !.live = FALSE] ELSE w

UnmountedAll(B, d) ==
    LET S == BagToSet(B)
    IN  [t \in {Unmounted(d, x) : x \in S} |->
            Copies(B, {x \in S : Unmounted(d, x) = t})]

Navigate(d, page) ==
    /\ page # view[d]
    /\ view' = [view EXCEPT ![d] = page]
    /\ listening' = [listening EXCEPT ![d] = TRUE]
    /\ lockers' = [lockers EXCEPT ![d] = NoRows]
    /\ loading' = [loading EXCEPT ![d] = TRUE]
    /\ showAdd' = [showAdd EXCEPT ![d] = FALSE]
    /\ form' = [form EXCEPT ![d] = DefaultForm]
    /\ globalPrice' = [globalPrice EXCEPT ![d] = DefaultGlobalPrice]
    /\ saving' = [saving EXCEPT ![d] = FALSE]
    /\ pending' = UnmountedAll(pending, d)
    /\ ev' = Quiet
    /\ UNCHANGED analytics
    /\ UNCHANGED <<store, clock>>

\* the page that subscribes to nothing
LoginPage == "login"

\* a variant whose cleanup does not call unsub
LeaveUnreleased(d) ==
    /\ view[d] # LoginPage
    /\ view' = [view EXCEPT ![d] = LoginPage]
    /\ pending' = UnmountedAll(pending, d)
    /\ ev' = Quiet
    /\ UNCHANGED analytics
    /\ UNCHANGED <<store, clock, listening, lockers, loading, showAdd, form,
                   globalPrice, saving>>

\* the operator leaves for the login page: the cleanup of the page's effect
\* calls unsub, and no page takes over the subscription; the list and the
\* flags stay as the page last had them
Leave(d) ==
    /\ view[d] # LoginPage
    /\ view' = [view EXCEPT ![d] = LoginPage]
    /\ listening' = [listening EXCEPT ![d] = FALSE]
    /\ pending' = UnmountedAll(pending, d)
    /\ ev' = Quiet
    /\ UNCHANGED analytics
    /\ UNCHANGED <<store, clock, lockers, loading, showAdd, form, globalPrice,
                   saving>>

(***************************************************************************)
(* Lockers page: the add form.                                             *)
(***************************************************************************)
OpenAdd(d) ==
    /\ view[d] = "lockers"
    /\ ~showAdd[d]
    /\ showAdd' = [showAdd EXCEPT ![d] = TRUE]
    /\ ev' = Quiet
    /\ UNCHANGED analytics
    /\ UNCHANGED <<store, clock, pending, view, listening, lockers, loading,
                   form, globalPrice, saving>>

CancelAdd(d) ==
    /\ view[d] = "lockers"
    /\ showAdd[d]
    /\ showAdd' = [showAdd EXCEPT ![d] = FALSE]
    /\ ev' = Quiet
    /\ UNCHANGED analytics
    /\ UNCHANGED <<store, clock, pending, view, listening, lockers, loading,
                   form, globalPrice, saving>>

\* onChange of one input of the form: setForm({ ...form, field: value })
SetForm(d, field, value) ==
    /\ view[d] = "lockers"
    /\ showAdd[d]
    /\ form[d][field] # value
    /\ form' = [form EXCEPT ![d][field] = value]
    /\ ev' = Quiet
    /\ UNCHANGED analytics
    /\ UNCHANGED <<store, clock, pending, view, listening, lockers, loading,
                   showAdd, globalPrice, saving>>

(***************************************************************************)
(* Lockers page: the four writes.                                          *)
(***************************************************************************)
\* the document Create locker sends
NewLockerDoc(f) ==
    [id |-> Trim(f.id),
     label |-> IF f.label # << >> THEN f.label ELSE Trim(f.id),
     location |-> IF f.location # "" THEN f.location ELSE "Unknown",
     status |-> f.doorStatus, lockState |-> 0,
     reservationUntil |-> Null, lastUpdated |-> ServerTimestamp,
     pricePerHour |-> f.pricePerHour, size |-> f.size]

\* a variant keyed by the id as typed
AddLockerWriteUntrimmed(d, f) ==
    Write("addLocker", "setDoc", d, f.id, NewLockerDoc(f), FALSE)

AddLockerWrite(d, f) ==
    Write("addLocker", "setDoc", d, Trim(f.id), NewLockerDoc(f), FALSE)

\* a variant that tests the id as typed
IdRequiredUntrimmed(f) == f.id = << >>

\* the id is empty once trimmed: alert and return
IdRequired(f) == Trim(f.id) = << >>

IdRequiredAlert == "Locker ID required"

AddLocker(d) ==
    /\ view[d] = "lockers"
    /\ showAdd[d]
    /\ IF IdRequired(form[d])
       THEN /\ ev' = Event("addLocker", None, FALSE, IdRequiredAlert, FALSE, FALSE)
            /\ pending' = pending
       ELSE /\ Room(1)
            /\ pending' = Issue({AddLockerWrite(d, form[d])})
            /\ ev' = Quiet
    /\ UNCHANGED analytics
    /\ UNCHANGED <<store, clock, view, listening, lockers, loading, showAdd,
                   form, globalPrice, saving>>

RemoveLockerWrite(d, id) ==
    Write("removeLocker", "deleteDoc", d, id, [f \in {} |-> 0], FALSE)

\* a variant that does not wait for the answer
RemoveUnasked(ok) == TRUE

\* whether removeLocker goes on to deleteDoc, given the answer to confirm()
RemoveConfirmed(ok) == ok

RemoveLocker(d, k, ok) ==
    /\ view[d] = "lockers"
    /\ k \in DOMAIN lockers[d]
    /\ LET w == RemoveLockerWrite(d, lockers[d][k].id)
       IN  IF RemoveConfirmed(ok)
           THEN /\ Room(1)
                /\ pending' = Issue({w})
                /\ ev' = Event("removeLocker", None, ok, None, FALSE, FALSE)
           ELSE /\ pending' = pending
                /\ ev' = Event("removeLocker", None, ok, None, FALSE, FALSE)
    /\ UNCHANGED analytics
    /\ UNCHANGED <<store, clock, view, listening, lockers, loading, showAdd,
                   form, globalPrice, saving>>

SavePriceWrite(d, id, pricePerHour) ==
    Write("savePrice", "updateDoc", d, id,
          [pricePerHour |-> pricePerHour, lastUpdated |-> ServerTimestamp], FALSE)

\* onBlur of a row's price input
SavePrice(d, k, pricePerHour) ==
    /\ view[d] = "lockers"
    /\ k \in DOMAIN lockers[d]
    /\ Room(1)
    /\ LET w == SavePriceWrite(d, lockers[d][k].id, pricePerHour)
       IN  /\ pending' = Issue({w})
           /\ ev' = Quiet
    /\ UNCHANGED analytics
    /\ UNCHANGED <<store, clock, view, listening, lockers, loading, showAdd,
                   form, globalPrice, saving>>

\* locker.lockState ?? 0
CurrentLockState(locker) ==
    IF "lockState" \in DOMAIN locker THEN locker.lockState ELSE 0

\* variants of the flip: one that always unlocks, one that counts up
AlwaysUnlocked(current) == 1

Incremented(current) == current + 1

\* current === 0 ? 1 : 0
NextLockState(current) == IF current = 0 THEN 1 ELSE 0

\* a variant that writes back the row's price with the lock bit
ToggleWriteWithPrice(d, locker) ==
    Write("toggleLockState", "updateDoc", d, locker.id,
          [lockState |-> NextLockState(CurrentLockState(locker)),
           pricePerHour |-> locker.pricePerHour,
           lastUpdated |-> ServerTimestamp], FALSE)

ToggleWrite(d, locker) ==
    Write("toggleLockState", "updateDoc", d, locker.id,
          [lockState |-> NextLockState(CurrentLockState(locker)),
           lastUpdated |-> ServerTimestamp], FALSE)

ToggleLockState(d, k) ==
    /\ view[d] = "lockers"
    /\ k \in DOMAIN lockers[d]
    /\ Room(1)
    /\ LET w == ToggleWrite(d, lockers[d][k])
       IN  /\ pending' = Issue({w})
           /\ ev' = Quiet
    /\ UNCHANGED analytics
    /\ UNCHANGED <<store, clock, view, listening, lockers, loading, showAdd,
                   form, globalPrice, saving>>

(***************************************************************************)
(* Pricing page: the bulk price apply.                                     *)
(***************************************************************************)
SetGlobalPrice(d, p) ==
    /\ view[d] = "pricing"
    /\ globalPrice[d] # p
    /\ globalPrice' = [globalPrice EXCEPT ![d] = p]
    /\ ev' = Quiet
    /\ UNCHANGED analytics
    /\ UNCHANGED <<store, clock, pending, view, listening, lockers, loading,
                   showAdd, form, saving>>

\* a variant that sends the price the page starts with
BulkWriteInitialPrice(d, l, price) ==
    Write("applyGlobal", "updateDoc", d, l.id,
          [pricePerHour |-> DefaultGlobalPrice, lastUpdated |-> ServerTimestamp],
          TRUE)

BulkWrite(d, l, price) ==
    Write("applyGlobal", "updateDoc", d, l.id,
          [pricePerHour |-> price, lastUpdated |-> ServerTimestamp], TRUE)

\* a variant that updates one row only
BulkWritesFirstOnly(d, rows, price) ==
    IF DOMAIN rows = {} THEN EmptyBag
    ELSE SetToBag({BulkWrite(d, rows[CHOOSE k \in DOMAIN rows : TRUE], price)})

\* lockers.map((l) => updateDoc(...)): one update per row of the list
BulkWrites(d, rows, price) ==
    [w \in {BulkWrite(d, rows[k], price) : k \in DOMAIN rows} |->
        Cardinality({k \in DOMAIN rows : BulkWrite(d, rows[k], price) = w})]

\* the Apply to All button is disabled
ApplyDisabled(d) == saving[d] \/ DOMAIN lockers[d] = {}

\* whether applyGlobal goes on to the updates, given the answer to confirm()
ApplyConfirmed(ok) == ok

ApplyGlobal(d, ok) ==
    /\ view[d] = "pricing"
    /\ ~ApplyDisabled(d)
    /\ IF ApplyConfirmed(ok)
       THEN /\ Room(Cardinality(DOMAIN lockers[d]))
            /\ saving' = [saving EXCEPT ![d] = TRUE]
            /\ pending' = pending (+) BulkWrites(d, lockers[d], globalPrice[d])
       ELSE /\ saving' = saving
            /\ pending' = pending
    /\ ev' = Event("applyGlobal", None, ok, None, FALSE, FALSE)
    /\ UNCHANGED analytics
    /\ UNCHANGED <<store, clock, view, listening, lockers, loading, showAdd,
                   form, globalPrice>>

(***************************************************************************)
(* The store settles a write, and the handler's continuation runs.         *)
(***************************************************************************)
Stamps(data) == \E f \in DOMAIN data \cap TimestampFields : data[f] = ServerTimestamp

\* the payload with serverTimestamp() replaced by the server's time
Resolved(data, now) ==
    [f \in DOMAIN data |->
        IF f \in TimestampFields /\ data[f] = ServerTimestamp THEN now ELSE data[f]]

\* a variant that replaces the document by the fields named, as setDoc does
Overwritten(doc, data) == data

\* updateDoc: the named fields are replaced, the others kept
Merged(doc, data) ==
    [f \in DOMAIN doc \cup DOMAIN data |-> IF f \in DOMAIN data THEN data[f] ELSE doc[f]]

\* a variant in which the first update of a document wins: the store drops
\* an update of a document that has been written since it was created
AppliedFirstWins(docs, w, now) ==
    CASE w.op = "setDoc" ->
            [k \in DOMAIN docs \cup {w.key} |->
                IF k = w.key THEN Resolved(w.data, now) ELSE docs[k]]
      [] w.op = "updateDoc" ->
            IF docs[w.key].lastUpdated # 0 THEN docs
            ELSE [docs EXCEPT ![w.key] = Merged(@, Resolved(w.data, now))]
      [] w.op = "deleteDoc" ->
            [k \in DOMAIN docs \ {w.key} |-> docs[k]]

\* the collection after the store has applied w at time now
Applied(docs, w, now) ==
    CASE w.op = "setDoc" ->
            [k \in DOMAIN docs \cup {w.key} |->
                IF k = w.key THEN Resolved(w.data, now) ELSE docs[k]]
      [] w.op = "updateDoc" ->
            [docs EXCEPT ![w.key] = Merged(@, Resolved(w.data, now))]
      [] w.op = "deleteDoc" ->
            [k \in DOMAIN docs \ {w.key} |-> docs[k]]

\* a variant in which the store takes an update of any key
ApplicableAlways(docs, w) == TRUE

\* updateDoc fails on a document that does not exist
Applicable(docs, w) == w.op = "updateDoc" => w.key \in DOMAIN docs

\* the other updates of the Promise.all that w belongs to
BatchMates(B, w) ==
    {x \in BagToSet(B) : /\ x.by = "applyGlobal"
                         /\ x.d = w.d
                         /\ x.awaited
                         /\ x.live = w.live}

\* the awaited update w has been rejected and so has its Promise.all: what
\* its other updates do no longer matters to it, and they go on; the
\* rejection of an update nobody awaits changes nothing for the others
Settled(w, x) ==
    IF /\ w.by = "applyGlobal" /\ w.awaited
       /\ x.by = "applyGlobal" /\ x.d = w.d /\ x.awaited /\ x.live = w.live
    THEN [x EXCEPT !.awaited = FALSE]
    ELSE x

\* the writes in flight once Promise.all has rejected on w
SettledAll(B, w) ==
    LET S == BagToSet(B)
    IN  [t \in {Settled(w, x) : x \in S} |->
            Copies(B, {x \in S : Settled(w, x) = t})]

\* addLocker after its await: close the form and reset it
AddLockerDone(d, w) ==
    IF w.by = "addLocker" /\ w.live
    THEN /\ showAdd' = [showAdd EXCEPT ![d] = FALSE]
         /\ form' = [form EXCEPT ![d] = DefaultForm]
    ELSE UNCHANGED <<showAdd, form>>

\* a variant that stops saving as soon as any update of the batch settles
ApplyGlobalFinallyOnFirst(d, w, settled) ==
    IF w.by = "applyGlobal" /\ w.live
    THEN saving' = [saving EXCEPT ![d] = FALSE]
    ELSE UNCHANGED saving

\* applyGlobal's finally, once Promise.all has settled
ApplyGlobalFinally(d, w, settled) ==
    IF w.by = "applyGlobal" /\ w.awaited /\ w.live /\ settled
    THEN saving' = [saving EXCEPT ![d] = FALSE]
    ELSE UNCHANGED saving

Commit(w) ==
    /\ w \in InFlight
    /\ Applicable(store, w)
    /\ IF Stamps(w.data)
       THEN clock < MaxClock /\ clock' = clock + 1
       ELSE clock' = clock
    /\ store' = Applied(store, w, clock')
    /\ pending' = Less(pending, w)
    /\ AddLockerDone(w.d, w)
    /\ ApplyGlobalFinally(w.d, w, BatchMates(Less(pending, w), w) = {})
    /\ ev' = Event("commit", w.by, FALSE, None, FALSE, FALSE)
    /\ UNCHANGED analytics
    /\ UNCHANGED <<view, listening, lockers, loading, globalPrice>>

\* a variant without the try/catch
CaughtNever(w) == FALSE

\* what the rejected write's handler does with the error: toggleLockState
\* catches it, logs and alerts
Caught(w) == w.by = "toggleLockState"

\* the rejection leaves its handler: the first rejection of a Promise.all
\* rejects it, later ones are absorbed
Escapes(w) == ~Caught(w) /\ (w.by = "applyGlobal" => w.awaited)

ToggleFailedAlert == "Failed to toggle lockState. Check console."

\* the store rejects a write (permission, connectivity, or an update of a
\* document that is gone)
Reject(w) ==
    /\ w \in InFlight
    /\ pending' = SettledAll(Less(pending, w), w)
    /\ ApplyGlobalFinally(w.d, w, TRUE)
    /\ ev' = Event("reject", w.by, FALSE,
                   IF Caught(w) THEN ToggleFailedAlert ELSE None,
                   Caught(w), Escapes(w))
    /\ UNCHANGED analytics
    /\ UNCHANGED <<store, clock, view, listening, lockers, loading, showAdd,
                   form, globalPrice>>

(***************************************************************************)
(* The other writers of the collection: the firmware writes the lock bit   *)
(* and the door status, the mobile client reserves.                        *)
(***************************************************************************)
ExternalPatches ==
    {[lockState |-> 0], [lockState |-> 1],
     [status |-> "reserved", reservationUntil |-> ReservedUntil]}

ExternalWrite(k, patch) ==
    /\ k \in DOMAIN store
    /\ clock < MaxClock
    /\ clock' = clock + 1
    /\ store' = [store EXCEPT ![k] = Merged(Merged(@, patch), [lastUpdated |-> clock'])]
    /\ ev' = Quiet
    /\ UNCHANGED analytics
    /\ UNCHANGED <<pending, view, listening, lockers, loading, showAdd, form,
                   globalPrice, saving>>

(***************************************************************************)
(* Analytics page: the subscription to the reservations collection.  A    *)
(* value of a reservation field is a Firestore Timestamp, a string, a      *)
(* number or null; a field the document lacks is absent from the record.   *)
(***************************************************************************)
Timestamp(seconds, nanoseconds) ==
    [type |-> "timestamp", seconds |-> seconds, nanoseconds |-> nanoseconds]

\* the string YYYY-MM-DDTHH:mm:ss.sssZ, its date as the day after the epoch
IsoString(day, hour, minute, second, milli) ==
    [type |-> "string", form |-> "iso", at |-> <<day, hour, minute, second, milli>>]

\* a string that Date cannot parse, the empty string, a number, null
OtherString == [type |-> "string", form |-> "other", at |-> << >>]
EmptyString == [type |-> "string", form |-> "empty", at |-> << >>]
NumberValue(n) == [type |-> "number", n |-> n]
NullValue == [type |-> "null"]

\* a string that is a label, by its characters
Label(text) == [type |-> "string", form |-> "label", text |-> text]
Active == <<"a", "c", "t", "i", "v", "e">>

\* the page as mounted: no reservations yet, loading, the listener live
MountedAnalytics == [reservations |-> << >>, loading |-> TRUE, listening |-> TRUE]

\* success callback: the rows replace the list, loading ends
OnReservations(rows) ==
    /\ analytics.listening
    /\ analytics.loading \/ analytics.reservations # rows
    /\ analytics' = [analytics EXCEPT !.reservations = rows, !.loading = FALSE]
    /\ ev' = Quiet
    /\ UNCHANGED <<store, clock, pending, view, listening, lockers, loading,
                   showAdd, form, globalPrice, saving>>

\* error callback: console.error and loading ends; the listener is dead
ReservationsError ==
    /\ analytics.listening
    /\ analytics' = [analytics EXCEPT !.loading = FALSE, !.listening = FALSE]
    /\ ev' = Event("snapshotError", None, FALSE, None, TRUE, FALSE)
    /\ UNCHANGED <<store, clock, pending, view, listening, lockers, loading,
                   showAdd, form, globalPrice, saving>>

\* the Analytics page is left: the cleanup calls unsub
LeaveAnalytics ==
    /\ analytics.listening
    /\ analytics' = [analytics EXCEPT !.listening = FALSE]
    /\ ev' = Quiet
    /\ UNCHANGED <<store, clock, pending, view, listening, lockers, loading,
                   showAdd, form, globalPrice, saving>>

(***************************************************************************)
(* Analytics page: dates.  A Date is its time value in milliseconds since  *)
(* the epoch; parseDate gives null for what it cannot read.                *)
(***************************************************************************)
MsPerSecond == 1000
MsPerMinute == 60000
MsPerHour == 3600000
NanosPerMs == 1000000
HoursPerDay == 24

\* the browser's time zone, in hours east of UTC
TimeZoneHours == 1

NoDate == [valid |-> FALSE]
DateOf(ms) == [valid |-> TRUE, time |-> ms]

\* Timestamp.toDate(): new Date(seconds * 1000 + nanoseconds / 1e6)
ToDate(value) ==
    DateOf(value.seconds * MsPerSecond + value.nanoseconds \div NanosPerMs)

\* new Date(string): the time value of an ISO string, NaN for another one
DateParse(value) ==
    IF value.form = "iso"
    THEN LET at == value.at
         IN  DateOf((((at[1] * HoursPerDay + at[2]) * 60 + at[3]) * 60 + at[4])
                        * MsPerSecond + at[5])
    ELSE NoDate

\* a variant that reads Timestamps only
ParseDateTimestampOnly(r, f) ==
    IF f \in DOMAIN r /\ r[f].type = "timestamp" THEN ToDate(r[f]) ELSE NoDate

\* parseDate(r.f): undefined, null, "" and 0 are falsy; a Timestamp has
\* toDate; a string goes through Date; anything else is null
ParseDate(r, f) ==
    IF f \notin DOMAIN r THEN NoDate
    ELSE LET value == r[f]
         IN  CASE value.type = "null" -> NoDate
               [] value.type = "string" /\ value.form = "empty" -> NoDate
               [] value.type = "number" /\ value.n = 0 -> NoDate
               [] value.type = "timestamp" -> ToDate(value)
               [] value.type = "string" /\ value.form # "empty" -> DateParse(value)
               [] OTHER -> NoDate

\* Date.getHours(): the hour of the day in the browser's time zone
GetHours(date) == ((date.time \div MsPerHour) + TimeZoneHours) % HoursPerDay

(***************************************************************************)
(* Analytics page: average duration.  A number of minutes is kept as the   *)
(* fraction num / den, since the durations are millisecond counts divided  *)
(* by 60000.                                                               *)
(***************************************************************************)
Unavailable == [available |-> FALSE]
Minutes(num, den) == [available |-> TRUE, num |-> num, den |-> den]

\* a variant that takes the distance between the two dates
DiffMsAbsolute(start, end) ==
    IF end.time >= start.time THEN end.time - start.time ELSE start.time - end.time

\* end.getTime() - start.getTime(), the numerator of diffMin
DiffMs(start, end) == end.time - start.time

\* a variant that lets a zero duration in
IncludedFromZero(diffMs) == diffMs >= 0

\* if (diffMin > 0) durations.push(diffMin)
Included(diffMs) == diffMs > 0

\* the durations array after the forEach, in milliseconds
RECURSIVE Durations(_)
Durations(rs) ==
    IF rs = << >> THEN << >>
    ELSE LET start == ParseDate(Head(rs), "startAt")
             end == ParseDate(Head(rs), "endAt")
             rest == Durations(Tail(rs))
         IN  IF ~start.valid \/ ~end.valid THEN rest
             ELSE IF Included(DiffMs(start, end))
                  THEN <<DiffMs(start, end)>> \o rest
                  ELSE rest

\* durations.reduce((a, b) => a + b, 0)
RECURSIVE Sum(_)
Sum(ns) == IF ns = << >> THEN 0 ELSE Head(ns) + Sum(Tail(ns))

AvgDurationMin(rs) ==
    LET durations == Durations(rs)
    IN  IF Len(durations) = 0 THEN Unavailable
        ELSE Minutes(Sum(durations), MsPerMinute * Len(durations))

(***************************************************************************)
(* Analytics page: peak hour.                                              *)
(***************************************************************************)
Hours == 0..(HoursPerDay - 1)

\* hourCounts after the forEach: how many parseable starts fall in hour h
RECURSIVE HourCounts(_)
HourCounts(rs) ==
    IF rs = << >> THEN [h \in Hours |-> 0]
    ELSE LET start == ParseDate(Head(rs), "startAt")
             rest == HourCounts(Tail(rs))
         IN  IF ~start.valid THEN rest
             ELSE [rest EXCEPT ![GetHours(start)] = @ + 1]

\* Math.max(...hourCounts)
MaxOf(counts) == CHOOSE m \in {counts[h] : h \in DOMAIN counts} :
                    \A h \in DOMAIN counts : counts[h] <= m

\* a variant that gives the last hour holding the value
LastIndexOf(counts, value) ==
    CHOOSE h \in DOMAIN counts :
        /\ counts[h] = value
        /\ \A g \in DOMAIN counts : counts[g] = value => g <= h

\* hourCounts.indexOf(max): the first hour holding the value
IndexOf(counts, value) ==
    CHOOSE h \in DOMAIN counts :
        /\ counts[h] = value
        /\ \A g \in DOMAIN counts : counts[g] = value => h <= g

Hour(h) == [available |-> TRUE, hour |-> h]

PeakOf(hourCounts) ==
    LET max == MaxOf(hourCounts)
    IN  IF max = 0 THEN Unavailable ELSE Hour(IndexOf(hourCounts, max))

PeakHour(rs) == PeakOf(HourCounts(rs))

(***************************************************************************)
(* Analytics page: top lockers.  counts is a plain object: Object.entries  *)
(* lists its integer-like keys first, in ascending numeric order, and      *)
(* then the other keys in the order they were created.                     *)
(***************************************************************************)
TopN == 5

Digits == <<"0", "1", "2", "3", "4", "5", "6", "7", "8", "9">>

IsDigit(c) == \E i \in DOMAIN Digits : Digits[i] = c
DigitValue(c) == (CHOOSE i \in DOMAIN Digits : Digits[i] = c) - 1

\* the key is the canonical decimal string of an integer (an array index)
IsArrayIndex(key) ==
    /\ key # << >>
    /\ \A i \in DOMAIN key : IsDigit(key[i])
    /\ Len(key) > 1 => key[1] # "0"

RECURSIVE IndexValue(_)
IndexValue(key) ==
    IF key = << >> THEN 0
    ELSE 10 * IndexValue(SubSeq(key, 1, Len(key) - 1)) + DigitValue(key[Len(key)])

\* the lockerId of each reservation that has one: !r.lockerId skips a
\* missing and an empty one
RECURSIVE LockerIdsOf(_)
LockerIdsOf(rs) ==
    IF rs = << >> THEN << >>
    ELSE LET r == Head(rs)
         IN  IF "lockerId" \in DOMAIN r /\ r.lockerId # << >>
             THEN <<r.lockerId>> \o LockerIdsOf(Tail(rs))
             ELSE LockerIdsOf(Tail(rs))

\* the ids in the order they were first met
RECURSIVE FirstMet(_)
FirstMet(ids) ==
    IF ids = << >> THEN << >>
    ELSE LET before == FirstMet(SubSeq(ids, 1, Len(ids) - 1))
             id == ids[Len(ids)]
         IN  IF \E i \in DOMAIN before : before[i] = id THEN before
             ELSE Append(before, id)

\* counts[id] after the forEach
CountOf(ids, id) == Cardinality({i \in DOMAIN ids : ids[i] = id})

\* the array-index keys of the set, ascending
RECURSIVE Ascending(_)
Ascending(keys) ==
    IF keys = {} THEN << >>
    ELSE LET least == CHOOSE k \in keys :
                          \A j \in keys : IndexValue(k) <= IndexValue(j)
         IN  <<least>> \o Ascending(keys \ {least})

\* a variant that lists every key in the order it was created
OwnKeysAsCreated(created) == created

\* the order in which Object.entries lists the keys created in this order
OwnKeys(created) ==
    Ascending({created[i] : i \in {j \in DOMAIN created : IsArrayIndex(created[j])}})
        \o SelectSeq(created, LAMBDA k : ~IsArrayIndex(k))

\* Object.entries(counts).map(([lockerId, count]) => ({ lockerId, count }))
Entries(ids) ==
    LET keys == OwnKeys(FirstMet(ids))
    IN  [i \in DOMAIN keys |-> [lockerId |-> keys[i], count |-> CountOf(ids, keys[i])]]

\* one entry put in its place in a list sorted by descending count, after
\* the entries of the same count
RECURSIVE Inserted(_, _)
Inserted(sorted, e) ==
    IF sorted = << >> THEN <<e>>
    ELSE IF Head(sorted).count >= e.count
         THEN <<Head(sorted)>> \o Inserted(Tail(sorted), e)
         ELSE <<e>> \o sorted

\* .sort((a, b) => b.count - a.count): stable
RECURSIVE SortedByCount(_)
SortedByCount(es) ==
    IF es = << >> THEN << >>
    ELSE Inserted(SortedByCount(SubSeq(es, 1, Len(es) - 1)), es[Len(es)])

TopLockers(rs) ==
    LET sorted == SortedByCount(Entries(LockerIdsOf(rs)))
    IN  SubSeq(sorted, 1, IF Len(sorted) < TopN THEN Len(sorted) ELSE TopN)

(***************************************************************************)
(* Analytics page: reservations per day.  A string is the sequence of its  *)
(* characters.  The key of a reservation is the first ten characters of    *)
(* Date.toISOString(), which writes the date in UTC.                       *)
(***************************************************************************)
MsPerDay == HoursPerDay * MsPerHour

IsLeapYear(y) == (y % 4 = 0 /\ y % 100 # 0) \/ y % 400 = 0
DaysInYear(y) == IF IsLeapYear(y) THEN 366 ELSE 365
DaysInMonth(y, m) ==
    CASE m = 2 -> IF IsLeapYear(y) THEN 29 ELSE 28
      [] m \in {4, 6, 9, 11} -> 30
      [] OTHER -> 31

\* the year of the day that lies d days after 1 January of year y, and the
\* day's place in that year, from 0
RECURSIVE YearFrom(_, _)
YearFrom(y, d) ==
    IF d < 0 THEN YearFrom(y - 1, d + DaysInYear(y - 1))
    ELSE IF d >= DaysInYear(y) THEN YearFrom(y + 1, d - DaysInYear(y))
    ELSE <<y, d>>

\* the month and the day of the month, from 1, of day d of year y
RECURSIVE MonthFrom(_, _, _)
MonthFrom(y, m, d) ==
    IF d >= DaysInMonth(y, m) THEN MonthFrom(y, m + 1, d - DaysInMonth(y, m))
    ELSE <<m, d + 1>>

\* n in decimal, padded with zeros to the width
RECURSIVE Padded(_, _)
Padded(n, width) ==
    IF width = 0 THEN << >>
    ELSE Padded(n \div 10, width - 1) \o <<Digits[(n % 10) + 1]>>

\* years 0 to 9999 are written with four digits, the others with a sign and
\* six
YearString(y) ==
    IF y \in 0..9999 THEN Padded(y, 4)
    ELSE IF y < 0 THEN <<"-">> \o Padded(0 - y, 6)
    ELSE <<"+">> \o Padded(y, 6)

\* the fields of the date and time of the time value shifted by the hours
DateTimeString(ms, hours) ==
    LET shifted == ms + hours * MsPerHour
        year == YearFrom(1970, shifted \div MsPerDay)
        month == MonthFrom(year[1], 1, year[2])
        inDay == shifted % MsPerDay
    IN  YearString(year[1]) \o <<"-">> \o Padded(month[1], 2) \o <<"-">>
            \o Padded(month[2], 2) \o <<"T">>
            \o Padded(inDay \div MsPerHour, 2) \o <<":">>
            \o Padded((inDay % MsPerHour) \div MsPerMinute, 2) \o <<":">>
            \o Padded((inDay % MsPerMinute) \div MsPerSecond, 2) \o <<".">>
            \o Padded(inDay % MsPerSecond, 3)

\* a variant that writes the date and time of the browser's time zone
ToLocalString(date) == DateTimeString(date.time, TimeZoneHours)

\* Date.toISOString(): YYYY-MM-DDTHH:mm:ss.sssZ, in UTC
ToISOString(date) == DateTimeString(date.time, 0) \o <<"Z">>

\* s.slice(from, to)
Slice(s, from, to) == SubSeq(s, from + 1, IF to < Len(s) THEN to ELSE Len(s))

\* a variant that also passes over a reservation whose startAt cannot be
\* read
RECURSIVE DayKeysOfStarted(_)
DayKeysOfStarted(rs) ==
    IF rs = << >> THEN << >>
    ELSE LET created == ParseDate(Head(rs), "createdAt")
             start == ParseDate(Head(rs), "startAt")
         IN  IF ~created.valid \/ ~start.valid THEN DayKeysOfStarted(Tail(rs))
             ELSE <<Slice(ToISOString(created), 0, 10)>>
                      \o DayKeysOfStarted(Tail(rs))

\* the key of each reservation whose createdAt parseDate can read
RECURSIVE DayKeysOf(_)
DayKeysOf(rs) ==
    IF rs = << >> THEN << >>
    ELSE LET created == ParseDate(Head(rs), "createdAt")
         IN  IF ~created.valid THEN DayKeysOf(Tail(rs))
             ELSE <<Slice(ToISOString(created), 0, 10)>> \o DayKeysOf(Tail(rs))

\* the order of the characters of a date under localeCompare
Collation ==
    <<"-", ":", ".", "+", "0", "1", "2", "3", "4", "5", "6", "7", "8", "9",
      "T", "Z">>

Rank(c) == CHOOSE i \in DOMAIN Collation : Collation[i] = c

\* a.localeCompare(b): negative, zero or positive
RECURSIVE LocaleCompare(_, _)
LocaleCompare(a, b) ==
    IF a = << >> /\ b = << >> THEN 0
    ELSE IF a = << >> THEN 0 - 1
    ELSE IF b = << >> THEN 1
    ELSE IF Rank(Head(a)) < Rank(Head(b)) THEN 0 - 1
    ELSE IF Rank(Head(a)) > Rank(Head(b)) THEN 1
    ELSE LocaleCompare(Tail(a), Tail(b))

\* Object.entries(map): the pairs [key, count]
DayEntries(keys) ==
    LET own == OwnKeys(FirstMet(keys))
    IN  [i \in DOMAIN own |-> <<own[i], CountOf(keys, own[i])>>]

\* one pair put in its place in a list sorted by key, after the pairs that
\* do not compare greater
RECURSIVE InsertedByKey(_, _)
InsertedByKey(sorted, e) ==
    IF sorted = << >> THEN <<e>>
    ELSE IF LocaleCompare(Head(sorted)[1], e[1]) <= 0
         THEN <<Head(sorted)>> \o InsertedByKey(Tail(sorted), e)
         ELSE <<e>> \o sorted

\* .sort(([a], [b]) => a.localeCompare(b)): stable
RECURSIVE SortedByKey(_)
SortedByKey(es) ==
    IF es = << >> THEN << >>
    ELSE InsertedByKey(SortedByKey(SubSeq(es, 1, Len(es) - 1)), es[Len(es)])

ReservationsPerDay(rs) == SortedByKey(DayEntries(DayKeysOf(rs)))

(***************************************************************************)
(* Analytics page: status breakdown.  map is a plain object, so it has the *)
(* accessor __proto__ of Object.prototype: map["__proto__"] reads the      *)
(* prototype, and assigning it anything but an object or null does         *)
(* nothing.  The names under which Object.prototype holds a function       *)
(* (constructor, toString, ...) are not among the labels met here.         *)
(***************************************************************************)
UnknownName == <<"u", "n", "k", "n", "o", "w", "n">>
ProtoName == <<"_", "_", "p", "r", "o", "t", "o", "_", "_">>

\* r.status ?? "unknown": the default stands in for undefined and null only
StatusOf(r) ==
    IF "status" \notin DOMAIN r \/ r.status.type = "null" THEN UnknownName
    ELSE r.status.text

\* the keys under which the forEach has stored a count, once for each
\* reservation it stored: map[s] = (map[s] || 0) + 1 stores nothing under
\* __proto__
RECURSIVE StatusKeysOf(_)
StatusKeysOf(rs) ==
    IF rs = << >> THEN << >>
    ELSE LET s == StatusOf(Head(rs))
         IN  IF s = ProtoName THEN StatusKeysOf(Tail(rs))
             ELSE <<s>> \o StatusKeysOf(Tail(rs))

\* Object.entries(map): the pairs [status, count]
StatusEntries(keys) ==
    LET own == OwnKeys(FirstMet(keys))
    IN  [i \in DOMAIN own |-> <<own[i], CountOf(keys, own[i])>>]

\* one pair put in its place in a list sorted by descending count, after
\* the pairs of the same count
RECURSIVE InsertedByCount(_, _)
InsertedByCount(sorted, e) ==
    IF sorted = << >> THEN <<e>>
    ELSE IF Head(sorted)[2] >= e[2]
         THEN <<Head(sorted)>> \o InsertedByCount(Tail(sorted), e)
         ELSE <<e>> \o sorted

\* .sort((a, b) => b[1] - a[1]): stable
RECURSIVE SortedPairsByCount(_)
SortedPairsByCount(es) ==
    IF es = << >> THEN << >>
    ELSE InsertedByCount(SortedPairsByCount(SubSeq(es, 1, Len(es) - 1)),
                         es[Len(es)])

StatusBreakdown(rs) == SortedPairsByCount(StatusEntries(StatusKeysOf(rs)))

\* reservations.length
TotalReservations(rs) == Len(rs)

(***************************************************************************)
(* Analytics page: what one render computes from the list.  A method is   *)
(* called on a Date only behind the test that parseDate gave one: a Date   *)
(* that is null has no time here either.                                   *)
(***************************************************************************)
Metrics(rs) ==
    [totalReservations |-> TotalReservations(rs),
     avgDurationMin |-> AvgDurationMin(rs),
     peakHour |-> PeakHour(rs),
     topLockers |-> TopLockers(rs),
     reservationsPerDay |-> ReservationsPerDay(rs),
     statusBreakdown |-> StatusBreakdown(rs)]

(***************************************************************************)
(* The system.  Every dashboard starts with its page just mounted: an     *)
(* empty list, loading, the form closed, nothing in flight.  The server's  *)
(* clock reads now; the documents already there were stamped before.       *)
(***************************************************************************)
InitWith(stores, pages, now) ==
    /\ store \in stores
    /\ clock = now
    /\ pending = EmptyBag
    /\ view \in pages
    /\ listening = [d \in Dashboards |-> TRUE]
    /\ lockers = [d \in Dashboards |-> NoRows]
    /\ loading = [d \in Dashboards |-> TRUE]
    /\ showAdd = [d \in Dashboards |-> FALSE]
    /\ form = [d \in Dashboards |-> DefaultForm]
    /\ globalPrice = [d \in Dashboards |-> DefaultGlobalPrice]
    /\ saving = [d \in Dashboards |-> FALSE]
    /\ analytics = MountedAnalytics
    /\ ev = Quiet

BothOnLockers == [d \in Dashboards |-> "lockers"]
OneOnPricing == [d \in Dashboards |-> IF d = "d2" THEN "pricing" ELSE "lockers"]

(***************************************************************************)
(* One dashboard on the Lockers page and no other writer: the add form,    *)
(* create, and the toggles that follow it.                                 *)
(***************************************************************************)
InitCreate == InitWith({EmptyStore}, {BothOnLockers}, 0)

NextCreate ==
    \/ OnSnapshot("d1")
    \/ OpenAdd("d1")
    \/ CancelAdd("d1")
    \/ \E id \in FormIds : SetForm("d1", "id", id)
    \/ \E s \in DoorStatuses : SetForm("d1", "doorStatus", s)
    \/ \E p \in FormPrices : SetForm("d1", "pricePerHour", p)
    \/ AddLocker("d1")
    \/ \E k \in LockerIds : ToggleLockState("d1", k)
    \/ \E w \in InFlight : Commit(w)
    \/ \E w \in InFlight : Reject(w)

SpecCreate == InitCreate /\ [][NextCreate]_vars

(***************************************************************************)
(* Two dashboards on the Lockers page of an existing collection, and the   *)
(* external writers.                                                       *)
(***************************************************************************)
InitLockers == InitWith({OneLockerStore, LegacyStore}, {BothOnLockers}, 0)

NextLockers ==
    \/ \E d \in Dashboards : OnSnapshot(d)
    \/ \E d \in Dashboards, k \in LockerIds, ok \in BOOLEAN : RemoveLocker(d, k, ok)
    \/ \E d \in Dashboards, k \in LockerIds, p \in BlurPrices : SavePrice(d, k, p)
    \/ \E d \in Dashboards, k \in LockerIds : ToggleLockState(d, k)
    \/ \E w \in InFlight : Commit(w)
    \/ \E w \in InFlight : Reject(w)
    \/ \E k \in LockerIds, patch \in ExternalPatches : ExternalWrite(k, patch)

SpecLockers == InitLockers /\ [][NextLockers]_vars

\* the store keeps delivering: a push that is due to a listening dashboard
\* is eventually applied
FairLockers == \A d \in Dashboards : WF_vars(OnSnapshot(d))

SpecLockersFair == SpecLockers /\ FairLockers

(***************************************************************************)
(* One dashboard on the Pricing page, another on the Lockers page of the   *)
(* same collection, whose operator works on one locker.                    *)
(***************************************************************************)
OtherKeys == {<<"B">>}
OtherPrices == {25}

InitPricing == InitWith({SeededStore}, {OneOnPricing}, 1)

NextPricing ==
    \/ \E d \in Dashboards : OnSnapshot(d)
    \/ \E p \in GlobalPrices : SetGlobalPrice("d2", p)
    \/ \E ok \in BOOLEAN : ApplyGlobal("d2", ok)
    \/ \E k \in OtherKeys, ok \in BOOLEAN : RemoveLocker("d1", k, ok)
    \/ \E k \in OtherKeys, p \in OtherPrices : SavePrice("d1", k, p)
    \/ \E w \in InFlight : Commit(w)
    \/ \E w \in InFlight : Reject(w)

SpecPricing == InitPricing /\ [][NextPricing]_vars

(***************************************************************************)
(* The subscriptions alone: a Lockers page, a Pricing page and the        *)
(* Analytics page listen while the external writers change a locker and    *)
(* reservations arrive; any of the listeners may fail.                     *)
(***************************************************************************)
\* a reservation as the mobile client creates it
PlainReservation ==
    [lockerId |-> <<"L", "1">>, status |-> Label(Active),
     createdAt |-> Timestamp(0, 0), startAt |-> Timestamp(0, 0),
     endAt |-> IsoString(0, 1, 0, 0, 0)]

SubscribeRows == {<< >>, <<PlainReservation>>}

InitSubscribe == InitWith({OneLockerStore}, {OneOnPricing}, 0)

NextSubscribe ==
    \/ \E d \in Dashboards : OnSnapshot(d)
    \/ \E d \in Dashboards : SnapshotError(d)
    \/ \E rows \in SubscribeRows : OnReservations(rows)
    \/ ReservationsError
    \/ \E k \in LockerIds, patch \in ExternalPatches : ExternalWrite(k, patch)

SpecSubscribe == InitSubscribe /\ [][NextSubscribe]_vars

(***************************************************************************)
(* The Analytics page while reservations arrive, newest first.  The        *)
(* reservations differ in how their start and end are given: as a          *)
(* Timestamp, as an ISO string, as something else, or not at all.          *)
(***************************************************************************)
MaxDurations == 3

Absent == [type |-> "absent"]

StartValues ==
    {Absent, NullValue, Timestamp(0, 0), Timestamp(3600, 0),
     IsoString(0, 0, 0, 0, 0)}

EndValues ==
    {Absent, OtherString, Timestamp(0, 0), Timestamp(3600, 0),
     IsoString(0, 1, 0, 0, 0), IsoString(0, 1, 30, 0, 0)}

\* a reservation with the start and end given, a field left out when Absent
TimedReservation(startAt, endAt) ==
    LET times == [startAt |-> startAt, endAt |-> endAt]
        given == {f \in DOMAIN times : times[f] # Absent}
        rest == {"lockerId", "status", "createdAt"}
    IN  [f \in rest \cup given |->
            IF f \in given THEN times[f] ELSE PlainReservation[f]]

DurationReservations ==
    {TimedReservation(s, e) : s \in StartValues, e \in EndValues}

InitAnalytics == InitWith({EmptyStore}, {BothOnLockers}, 0)

\* the push after the mobile client has created reservation r
ReservationCreated(r) == OnReservations(<<r>> \o analytics.reservations)

NextDurations ==
    \E r \in DurationReservations :
        Len(analytics.reservations) < MaxDurations /\ ReservationCreated(r)

SpecDurations == InitAnalytics /\ [][NextDurations]_vars

(***************************************************************************)
(* The same page with reservations that differ in the hour they start.    *)
(***************************************************************************)
MaxStarts == 4

HourStarts ==
    {Absent, OtherString, Timestamp(0, 0), Timestamp(3600, 0),
     IsoString(0, 1, 0, 0, 0), IsoString(0, 23, 30, 0, 0)}

StartReservations == {TimedReservation(s, Absent) : s \in HourStarts}

NextStarts ==
    \E r \in StartReservations :
        Len(analytics.reservations) < MaxStarts /\ ReservationCreated(r)

SpecStarts == InitAnalytics /\ [][NextStarts]_vars

(***************************************************************************)
(* The same page with reservations that differ in their locker: ids that   *)
(* are numbers, ids that are not, an empty id, no id.                      *)
(***************************************************************************)
MaxBooked == 6

BookedIds ==
    {<< >>, <<"9">>, <<"1", "0">>, <<"L", "1">>, <<"L", "2">>, <<"L", "3">>,
     <<"L", "4">>}

Booked(lockerId) == [PlainReservation EXCEPT !.lockerId = lockerId]

Unbooked ==
    [f \in DOMAIN PlainReservation \ {"lockerId"} |-> PlainReservation[f]]

LockerReservations == {Booked(id) : id \in BookedIds} \cup {Unbooked}

NextBooked ==
    \E r \in LockerReservations :
        Len(analytics.reservations) < MaxBooked /\ ReservationCreated(r)

SpecBooked == InitAnalytics /\ [][NextBooked]_vars

(***************************************************************************)
(* The same page with reservations that differ in when they were created:  *)
(* late on the last day of a year, at the start of the next day, half an   *)
(* hour before the end of that day, on the day after, or at no time the    *)
(* page can read.                                                          *)
(***************************************************************************)
MaxCreated == 4

CreatedValues ==
    {Absent, OtherString, Timestamp(0 - 1800, 0), Timestamp(0, 0),
     IsoString(0, 23, 30, 0, 0), Timestamp(86400, 0), IsoString(1, 0, 30, 0, 0)}

\* a reservation with the creation time given, the field left out when Absent
CreatedReservation(createdAt) ==
    IF createdAt = Absent
    THEN [f \in DOMAIN PlainReservation \ {"createdAt"} |-> PlainReservation[f]]
    ELSE [PlainReservation EXCEPT !.createdAt = createdAt]

CreatedReservations == {CreatedReservation(c) : c \in CreatedValues}

NextCreated ==
    \E r \in CreatedReservations :
        Len(analytics.reservations) < MaxCreated /\ ReservationCreated(r)

SpecCreated == InitAnalytics /\ [][NextCreated]_vars

(***************************************************************************)
(* The same page with reservations that differ in their status: a label,   *)
(* the label "unknown" itself, the label "__proto__", null, none.          *)
(***************************************************************************)
MaxStatuses == 4

Expired == <<"e", "x", "p", "i", "r", "e", "d">>

StatusValues ==
    {Absent, NullValue, Label(Active), Label(Expired), Label(UnknownName),
     Label(ProtoName)}

\* a reservation with the status given, the field left out when Absent
StatusReservation(status) ==
    IF status = Absent
    THEN [f \in DOMAIN PlainReservation \ {"status"} |-> PlainReservation[f]]
    ELSE [PlainReservation EXCEPT !.status = status]

StatusReservations == {StatusReservation(s) : s \in StatusValues}

NextStatus ==
    \E r \in StatusReservations :
        Len(analytics.reservations) < MaxStatuses /\ ReservationCreated(r)

SpecStatus == InitAnalytics /\ [][NextStatus]_vars

(***************************************************************************)
(* The same page with reservations any of whose fields may be missing or   *)
(* unreadable: a start that is no date, an end that is a number, an empty  *)
(* locker id, a creation time that is null or no date.  The query orders   *)
(* by createdAt, so a reservation without that field is not in the         *)
(* snapshot.                                                               *)
(***************************************************************************)
MaxMalformed == 2

\* the record without the fields
Lacking(r, fields) == [f \in DOMAIN r \ fields |-> r[f]]

MalformedReservations ==
    {Lacking([PlainReservation EXCEPT !.startAt = s, !.endAt = e,
                                      !.lockerId = l, !.createdAt = c], fields) :
        s \in {PlainReservation.startAt, OtherString},
        e \in {PlainReservation.endAt, NumberValue(5)},
        l \in {PlainReservation.lockerId, << >>},
        c \in {PlainReservation.createdAt, NullValue, OtherString},
        fields \in SUBSET {"startAt", "lockerId", "status"}}

NextMalformed ==
    \E r \in MalformedReservations :
        Len(analytics.reservations) < MaxMalformed /\ ReservationCreated(r)

SpecMalformed == InitAnalytics /\ [][NextMalformed]_vars

(***************************************************************************)
(* Pages come and go: the operators move between the Lockers page, the     *)
(* Pricing page and the login page, and leave the Analytics page, while    *)
(* the other writers change a locker and reservations arrive.              *)
(***************************************************************************)
InitTeardown == InitWith({OneLockerStore}, {OneOnPricing}, 0)

NextTeardown ==
    \/ \E d \in Dashboards : OnSnapshot(d)
    \/ \E d \in Dashboards : SnapshotError(d)
    \/ \E d \in Dashboards, page \in Views : Navigate(d, page)
    \/ \E d \in Dashboards : Leave(d)
    \/ \E rows \in SubscribeRows : OnReservations(rows)
    \/ ReservationsError
    \/ LeaveAnalytics
    \/ \E k \in LockerIds, patch \in ExternalPatches : ExternalWrite(k, patch)

SpecTeardown == InitTeardown /\ [][NextTeardown]_vars

(***************************************************************************)
(* A toggle and a price update of one locker at the same time: the         *)
(* operator of a Lockers page toggles locker A and changes its price,      *)
(* while the other dashboard, on the Lockers page or on the Pricing page,  *)
(* does the same or applies a price to all lockers.  The collection holds  *)
(* locker A, or lockers A and B.                                           *)
(***************************************************************************)
ContendedKeys == {<<"A">>}

InitConcurrent ==
    InitWith({OneLockerStore, SeededStore}, {BothOnLockers, OneOnPricing}, 0)

NextConcurrent ==
    \/ \E d \in Dashboards : OnSnapshot(d)
    \/ \E d \in Dashboards, k \in ContendedKeys : ToggleLockState(d, k)
    \/ \E d \in Dashboards, k \in ContendedKeys, p \in BlurPrices :
          SavePrice(d, k, p)
    \/ \E p \in GlobalPrices : SetGlobalPrice("d2", p)
    \/ ApplyGlobal("d2", TRUE)
    \/ \E w \in InFlight : Commit(w)
    \/ \E w \in InFlight : Reject(w)

SpecConcurrent == InitConcurrent /\ [][NextConcurrent]_vars

(***************************************************************************)
(* Writes from a stale list: the operator of the Lockers page creates,     *)
(* deletes, toggles and reprices locker A while the Pricing page applies a *)
(* price to the lockers it lists; a write may reach the store after the    *)
(* locker it names is gone.                                                *)
(***************************************************************************)
StaleIds == {<<"A">>}

InitStale == InitWith({OneLockerStore}, {OneOnPricing}, 0)

NextStale ==
    \/ \E d \in Dashboards : OnSnapshot(d)
    \/ OpenAdd("d1")
    \/ \E id \in StaleIds : SetForm("d1", "id", id)
    \/ AddLocker("d1")
    \/ \E k \in StaleIds : RemoveLocker("d1", k, TRUE)
    \/ \E k \in StaleIds : ToggleLockState("d1", k)
    \/ \E k \in StaleIds, p \in BlurPrices : SavePrice("d1", k, p)
    \/ ApplyGlobal("d2", TRUE)
    \/ \E w \in InFlight : Commit(w)
    \/ \E w \in InFlight : Reject(w)

SpecStale == InitStale /\ [][NextStale]_vars

(***************************************************************************)
(* A bulk apply in which every update succeeds and nobody else changes a   *)
(* price: the Pricing page applies a price to the lockers it lists and its *)
(* operator goes on changing the price input, while the operator of the    *)
(* Lockers page creates locker B at a price of its own.                    *)
(***************************************************************************)
CreatedIds == {<<"B">>}
InputPrices == GlobalPrices \cup {DefaultGlobalPrice}

InitBulk == InitWith({OneLockerStore}, {OneOnPricing}, 0)

NextBulk ==
    \/ \E d \in Dashboards : OnSnapshot(d)
    \/ \E p \in InputPrices : SetGlobalPrice("d2", p)
    \/ ApplyGlobal("d2", TRUE)
    \/ OpenAdd("d1")
    \/ \E id \in CreatedIds : SetForm("d1", "id", id)
    \/ \E p \in FormPrices : SetForm("d1", "pricePerHour", p)
    \/ AddLocker("d1")
    \/ \E w \in InFlight : Commit(w)

SpecBulk == InitBulk /\ [][NextBulk]_vars

(***************************************************************************)
(* Reading a step: the write it put in flight, the write the store        *)
(* settled in it.                                                          *)
(***************************************************************************)
Issued(w) == pending' = pending (+) SetToBag({w})

Committed(w) ==
    /\ ev'.kind = "commit"
    /\ ev'.by = w.by
    /\ w \in BagToSet(pending)
    /\ pending' = Less(pending, w)

\* the list of dashboard d shows the lock state the store holds for k
FreshLockState(d, k) ==
    /\ k \in DOMAIN lockers[d]
    /\ k \in DOMAIN store
    /\ lockers[d][k].lockState = store[k].lockState

(***************************************************************************)
(* C1.  One dashboard, no other writer.  A committed create leaves the    *)
(* stored lockState 0; a committed toggle leaves the value it carries;     *)
(* and a toggle issued with nothing else in flight carries the opposite    *)
(* of the stored lockState - so create, toggle, toggle gives 0, 1, 0.      *)
(* C1_Original asks this of every such toggle, whether or not a push has   *)
(* brought the stored lockState to the dashboard; C1_RoundTrip asks it of  *)
(* the toggles issued after that push.                                     *)
(***************************************************************************)
RoundTripStep(afterPushOnly) ==
    /\ \A w \in BagToSet(pending) :
          Committed(w) /\ w.by = "addLocker" => store'[w.key].lockState = 0
    /\ \A w \in BagToSet(pending) :
          Committed(w) /\ w.by = "toggleLockState"
              => store'[w.key].lockState = w.data.lockState
    /\ \A w \in BagToSet(pending') :
          /\ pending = EmptyBag
          /\ Issued(w)
          /\ w.by = "toggleLockState"
          /\ w.key \in DOMAIN store
          /\ afterPushOnly => FreshLockState(w.d, w.key)
          => w.data.lockState = 1 - store[w.key].lockState

C1_Original == [][RoundTripStep(FALSE)]_vars

C1_RoundTrip == [][RoundTripStep(TRUE)]_vars

\* create, push, toggle, push, toggle: three stamped commits, the last a
\* toggle that brought the stored lockState back to 0
C1_RoundTripDone ==
    /\ ev.kind = "commit"
    /\ ev.by = "toggleLockState"
    /\ clock = 3
    /\ <<"A">> \in DOMAIN store
    /\ store[<<"A">>].lockState = 0
    /\ store[<<"A">>].lastUpdated = 3

(***************************************************************************)
(* C2.  A toggle is a read-modify-write over the cached lock state: the    *)
(* write it issues carries the opposite of the row's lockState, whatever   *)
(* the store holds; when the store commits it, the stored lockState is the *)
(* value the write carries, whatever it was before, and nothing is         *)
(* alerted, logged or thrown: the last write wins and nobody is told.      *)
(***************************************************************************)
C2_LastWriteWins ==
    [][/\ \A w \in BagToSet(pending') :
             Issued(w) /\ w.by = "toggleLockState"
                 => /\ w.key \in DOMAIN lockers[w.d]
                    /\ w.data.lockState
                           = 1 - CurrentLockState(lockers[w.d][w.key])
       /\ \A w \in BagToSet(pending) :
             Committed(w) /\ w.by = "toggleLockState"
                 => /\ store'[w.key].lockState = w.data.lockState
                    /\ ev'.alert = None
                    /\ ~ev'.logged
                    /\ ~ev'.unhandled]_vars

\* a lost toggle: d1's toggle has been committed and the store holds 1;
\* d2's toggle, computed from the same cached 0, is in flight and carries
\* 1 as well
C2_LostToggle ==
    /\ ev.kind = "commit"
    /\ ev.by = "toggleLockState"
    /\ <<"A">> \in DOMAIN store
    /\ store[<<"A">>] = [SeedDoc(<<"A">>) EXCEPT !.lockState = 1, !.lastUpdated = 1]
    /\ pending = SetToBag({ToggleWrite("d2", LockerRow(<<"A">>, SeedDoc(<<"A">>)))})
    /\ <<"A">> \in DOMAIN lockers["d2"]
    /\ lockers["d2"][<<"A">>] = LockerRow(<<"A">>, SeedDoc(<<"A">>))

(***************************************************************************)
(* C3.  From the confirmed start of a bulk apply until every one of its    *)
(* per-locker updates has settled, saving is true on that dashboard (and   *)
(* so its Apply button is disabled): while an update of a dashboard's      *)
(* bulk apply is in flight, that dashboard is saving.                      *)
(***************************************************************************)
C3_SavingUntilSettled ==
    \A d \in Dashboards :
        (\E w \in InFlight : w.by = "applyGlobal" /\ w.d = d /\ w.live)
            => saving[d] /\ ApplyDisabled(d)

(***************************************************************************)
(* C4.  The lockState of every document that has one is 0 or 1, the other  *)
(* writers writing only 0 or 1: a create carries 0, and a toggle carries 1 *)
(* when the cached lockState is 0 or missing and 0 otherwise.              *)
(***************************************************************************)
LockStates == {0, 1}

C4_LockStateBit ==
    /\ [](\A k \in DOMAIN store :
             "lockState" \in DOMAIN store[k] => store[k].lockState \in LockStates)
    /\ [][\A w \in BagToSet(pending') :
             /\ Issued(w) /\ w.by = "addLocker" => w.data.lockState = 0
             /\ Issued(w) /\ w.by = "toggleLockState"
                   => LET row == lockers[w.d][w.key]
                          zero == \/ "lockState" \notin DOMAIN row
                                  \/ row.lockState = 0
                      IN  w.data.lockState = IF zero THEN 1 ELSE 0]_vars

\* a toggle of a row that has no lockState has been committed: the document
\* now holds 1
C4_MissingToggled ==
    /\ ev.kind = "commit"
    /\ ev.by = "toggleLockState"
    /\ <<"A">> \in DOMAIN store
    /\ store[<<"A">>] = [f \in DOMAIN SeedDoc(<<"A">>) |->
                            CASE f = "lockState" -> 1
                              [] f = "lastUpdated" -> 1
                              [] OTHER -> LegacyDoc(<<"A">>)[f]]
    /\ \E d \in Dashboards :
          /\ <<"A">> \in DOMAIN lockers[d]
          /\ "lockState" \notin DOMAIN lockers[d][<<"A">>]

(***************************************************************************)
(* C5.  The write a create issues is a setDoc keyed by the trimmed id of   *)
(* the form, carrying lockState 0, reservationUntil null, the form's       *)
(* price and door status, and the server-timestamp sentinel; once          *)
(* committed, the document under that key is that payload with lastUpdated *)
(* the server's time of the commit.                                        *)
(***************************************************************************)
C5_CreatedDocument ==
    [][/\ \A w \in BagToSet(pending') :
             Issued(w) /\ w.by = "addLocker"
                 => /\ w.op = "setDoc"
                    /\ w.key = Trim(form[w.d].id)
                    /\ w.data.lockState = 0
                    /\ w.data.reservationUntil = Null
                    /\ w.data.pricePerHour = form[w.d].pricePerHour
                    /\ w.data.status = form[w.d].doorStatus
                    /\ w.data.lastUpdated = ServerTimestamp
       /\ \A w \in BagToSet(pending) :
             Committed(w) /\ w.by = "addLocker"
                 => /\ clock' = clock + 1
                    /\ w.key \in DOMAIN store'
                    /\ store'[w.key] = [w.data EXCEPT !.lastUpdated = clock']]_vars

\* a create with a price and a door status other than the form's defaults
\* has been committed
C5_Created ==
    /\ ev.kind = "commit"
    /\ ev.by = "addLocker"
    /\ clock = 1
    /\ DOMAIN store = {<<"A">>}
    /\ store[<<"A">>] = [id |-> <<"A">>, label |-> <<"A">>,
                         location |-> "Unknown", status |-> "open",
                         lockState |-> 0, reservationUntil |-> Null,
                         lastUpdated |-> 1, pricePerHour |-> 25, size |-> "M"]

(***************************************************************************)
(* C6.  A create whose id is empty once trimmed shows the "Locker ID       *)
(* required" alert, issues no write, and leaves the store, the form and    *)
(* its being open as they were; no create is ever issued or stored under   *)
(* the empty key.                                                          *)
(***************************************************************************)
C6_IdRequired ==
    /\ [](<< >> \notin DOMAIN store)
    /\ [][/\ \A d \in Dashboards :
                AddLocker(d) /\ Trim(form[d].id) = << >>
                    => /\ ev'.alert = IdRequiredAlert
                       /\ UNCHANGED <<store, pending, showAdd, form>>
          /\ \A w \in BagToSet(pending') :
                Issued(w) /\ w.by = "addLocker" => w.key # << >>]_vars

\* the alert is up over an open form whose id is one space and whose other
\* fields are not the defaults; nothing is in flight or stored
C6_BlankIdRefused ==
    /\ ev.kind = "addLocker"
    /\ ev.alert = IdRequiredAlert
    /\ showAdd["d1"]
    /\ form["d1"] = [DefaultForm EXCEPT !.id = <<" ">>, !.doorStatus = "open",
                                        !.pricePerHour = 25]
    /\ pending = EmptyBag
    /\ store = EmptyStore

(***************************************************************************)
(* C7.  A delete is issued only after the confirmation is accepted, and a  *)
(* declined one issues nothing; a declined bulk apply issues no update and *)
(* does not set saving, and saving is set and bulk updates are issued only *)
(* by a confirmed bulk apply.                                              *)
(***************************************************************************)
C7_ConfirmedOnly ==
    [][/\ \A d \in Dashboards, k \in LockerIds :
             RemoveLocker(d, k, FALSE) => UNCHANGED <<store, pending, saving>>
       /\ \A d \in Dashboards :
             ApplyGlobal(d, FALSE) => UNCHANGED <<store, pending, saving>>
       /\ \A w \in BagToSet(pending' (-) pending) :
             /\ w.op = "deleteDoc"
                  => ev'.kind = "removeLocker" /\ ev'.confirmed
             /\ w.by = "applyGlobal" /\ w.awaited
                  => ev'.kind = "applyGlobal" /\ ev'.confirmed
       /\ \A d \in Dashboards :
             ~saving[d] /\ saving'[d]
                  => ev'.kind = "applyGlobal" /\ ev'.confirmed]_vars

\* a bulk apply over a list of two lockers has just been declined: nothing
\* is in flight, the dashboard is not saving, no price has changed
C7_BulkDeclined ==
    /\ ev.kind = "applyGlobal"
    /\ ~ev.confirmed
    /\ DOMAIN lockers["d2"] = LockerIds
    /\ globalPrice["d2"] = 30
    /\ pending = EmptyBag
    /\ ~saving["d2"]
    /\ store = SeededStore

(***************************************************************************)
(* C8.  A confirmed bulk apply puts in flight, in the one step and before  *)
(* any of them settles, exactly one update per locker of the list, each    *)
(* carrying the global price; when one of them is rejected the store is    *)
(* left as it is (what was committed stays) and every other update stays   *)
(* in flight.                                                              *)
(***************************************************************************)
\* a write without what its handler still awaits
Core(w) == [w EXCEPT !.awaited = FALSE]

Cores(B) ==
    LET S == BagToSet(B)
    IN  [t \in {Core(x) : x \in S} |-> Copies(B, {x \in S : Core(x) = t})]

C8_OnePerLocker ==
    [][/\ \A d \in Dashboards :
             ApplyGlobal(d, TRUE)
                 => LET new == pending' (-) pending
                    IN  /\ store' = store
                        /\ pending' = pending (+) new
                        /\ BagCardinality(new) = Cardinality(DOMAIN lockers[d])
                        /\ \A k \in DOMAIN lockers[d] :
                              \E w \in BagToSet(new) :
                                  /\ new[w] = 1
                                  /\ w.op = "updateDoc"
                                  /\ w.key = k
                                  /\ w.data.pricePerHour = globalPrice[d]
                                  /\ w.data.lastUpdated = ServerTimestamp
       /\ ev'.kind = "reject" /\ ev'.by = "applyGlobal"
             => /\ store' = store
                /\ BagCardinality(pending') = BagCardinality(pending) - 1
                /\ Cores(pending') \sqsubseteq Cores(pending)]_vars

\* a partial failure: of one bulk apply over A and B, the update of A was
\* committed, the update of B has just been rejected, and A keeps the price
C8_PartialFailure ==
    /\ ev.kind = "reject"
    /\ ev.by = "applyGlobal"
    /\ clock = 2
    /\ pending = EmptyBag
    /\ DOMAIN store = LockerIds
    /\ store[<<"A">>].pricePerHour = 30
    /\ store[<<"A">>].lastUpdated = 2
    /\ store[<<"B">>] = SeedDoc(<<"B">>)

(***************************************************************************)
(* C9.  Whenever a write of the dashboard (create, delete, update price,   *)
(* toggle, bulk apply) is rejected, the error is logged and shown in an    *)
(* alert, and it does not escape as an unhandled rejection.                *)
(***************************************************************************)
C9_FailuresSurfaced ==
    ev.kind = "reject" => ev.logged /\ ev.alert # None /\ ~ev.unhandled

(***************************************************************************)
(* C10.  A toggle never changes the list in memory, whether it is issued,  *)
(* committed or rejected: the list of a dashboard changes only in the      *)
(* step that applies a push.  A rejected toggle is caught: it is logged    *)
(* and alerted, nothing escapes, and the store is left as it is.           *)
(***************************************************************************)
C10_ToggleLeavesList ==
    [][/\ \A d \in Dashboards :
             lockers'[d] # lockers[d]
                 => OnSnapshot(d) /\ lockers'[d] = Snapshot(view[d], store)
       /\ \A d \in Dashboards, k \in LockerIds :
             ToggleLockState(d, k) => UNCHANGED <<lockers, store>>
       /\ ev'.kind \in {"commit", "reject"} /\ ev'.by = "toggleLockState"
             => lockers' = lockers
       /\ ev'.kind = "reject" /\ ev'.by = "toggleLockState"
             => /\ store' = store
                /\ ev'.alert = ToggleFailedAlert
                /\ ev'.logged
                /\ ~ev'.unhandled]_vars

\* the toggle of a locked locker has been rejected: the alert is up, the
\* store and the list still hold lockState 0
C10_ToggleFailed ==
    /\ ev.kind = "reject"
    /\ ev.by = "toggleLockState"
    /\ ev.alert = ToggleFailedAlert
    /\ ev.logged
    /\ pending = EmptyBag
    /\ store = OneLockerStore
    /\ lockers["d1"] = Snapshot("lockers", OneLockerStore)

(***************************************************************************)
(* C11.  When a subscription reports an error, the subscriber logs it and  *)
(* clears its loading flag, keeps the list it holds, and never listens     *)
(* again: once a listener is gone it stays gone and the list stays as it   *)
(* is.                                                                     *)
(***************************************************************************)
C11_ErrorHandled ==
    [][/\ \A d \in Dashboards :
             SnapshotError(d)
                 => /\ ev'.logged
                    /\ ~loading'[d]
                    /\ lockers'[d] = lockers[d]
       /\ ReservationsError
             => /\ ev'.logged
                /\ ~analytics'.loading
                /\ analytics'.reservations = analytics.reservations
       /\ \A d \in Dashboards :
             ~listening[d] => ~listening'[d] /\ lockers'[d] = lockers[d]
       /\ ~analytics.listening
             => /\ ~analytics'.listening
                /\ analytics'.reservations = analytics.reservations]_vars

(***************************************************************************)
(* C12.  A push replaces the list: after the step that applies one, the    *)
(* list of the dashboard has a row for exactly the documents of the        *)
(* collection, each the page's mapping of its document, and nothing of the *)
(* previous list is kept; and the list changes in no other step, so it is  *)
(* always the last snapshot delivered.                                     *)
(***************************************************************************)
C12_ListIsSnapshot ==
    [][\A d \in Dashboards :
          /\ OnSnapshot(d) \/ lockers'[d] # lockers[d] \/ loading'[d] # loading[d]
                => /\ OnSnapshot(d)
                   /\ ~loading'[d]
                   /\ DOMAIN lockers'[d] = DOMAIN store
                   /\ \A k \in DOMAIN store :
                         lockers'[d][k] = IF view[d] = "lockers"
                                          THEN LockerRow(k, store[k])
                                          ELSE PricingRow(k, store[k])]_vars

\* the Pricing page's list after the push that followed the removal of B
\* and a bulk apply: one row, A at the new price, while the Lockers page
\* still holds its two rows
C12_Replaced ==
    /\ ev = Quiet
    /\ DOMAIN store = {<<"A">>}
    /\ store[<<"A">>].pricePerHour = 30
    /\ DOMAIN lockers["d2"] = {<<"A">>}
    /\ lockers["d2"][<<"A">>].pricePerHour = 30
    /\ DOMAIN lockers["d1"] = LockerIds

(***************************************************************************)
(* C13.  The list in memory corrects itself: if from some point on the     *)
(* store is no longer written, then from some point on the list of every   *)
(* listening dashboard is the image of the store's collection, also after  *)
(* a toggle that failed or was overwritten.                                *)
(***************************************************************************)
C13_SelfCorrecting ==
    \A d \in Dashboards :
        <>[][store' = store]_vars
            => <>[](listening[d] => lockers[d] = Snapshot(view[d], store))

\* a toggle has just failed while the list is behind the store: an external
\* write has changed the locker since the last push
C13_StaleAfterFailure ==
    /\ ev.kind = "reject"
    /\ ev.by = "toggleLockState"
    /\ pending = EmptyBag
    /\ listening["d1"]
    /\ ~loading["d1"]
    /\ <<"A">> \in DOMAIN lockers["d1"]
    /\ lockers["d1"] # Snapshot("lockers", store)

(***************************************************************************)
(* C14.  saving becomes true in the step of a confirmed bulk apply and     *)
(* false again only in the step in which the awaited batch resolves (its   *)
(* last update is committed) or rejects (one update is rejected).  Nothing *)
(* else clears it: a dashboard is saving, and its Apply button disabled,   *)
(* exactly as long as an update its Promise.all still awaits is in flight, *)
(* however long that lasts.                                                *)
(***************************************************************************)
Awaited(d) ==
    {w \in InFlight : w.by = "applyGlobal" /\ w.d = d /\ w.awaited /\ w.live}

C14_SavingWhileAwaited ==
    /\ [](\A d \in Dashboards :
             /\ saving[d] <=> Awaited(d) # {}
             /\ saving[d] => ApplyDisabled(d))
    /\ [][\A d \in Dashboards :
             /\ ~saving[d] /\ saving'[d]
                   => ev'.kind = "applyGlobal" /\ ev'.confirmed
             /\ ev'.kind = "applyGlobal" /\ ev'.confirmed /\ view[d] = "pricing"
                   => saving'[d]
             /\ saving[d] /\ ~saving'[d]
                   => /\ ev'.by = "applyGlobal"
                      /\ \/ ev'.kind = "reject"
                         \/ /\ ev'.kind = "commit"
                            /\ \E w \in Awaited(d) :
                                  Awaited(d) = {w} /\ pending' = Less(pending, w)]_vars

\* a bulk apply over A and B is half done: the update of A is committed,
\* the update of B is still awaited, and the dashboard is saving
C14_StillSaving ==
    /\ ev.kind = "commit"
    /\ ev.by = "applyGlobal"
    /\ saving["d2"]
    /\ store[<<"A">>].pricePerHour = 30
    /\ pending = SetToBag({BulkWrite("d2", lockers["d2"][<<"B">>], 30)})

(***************************************************************************)
(* C15.  Update price of locker L with value p, for any number p the      *)
(* input hands over, a negative one included, issues an update of L        *)
(* carrying p; once committed, L's pricePerHour is p and its lastUpdated   *)
(* the server's time of the commit, every other field of L is as it was,   *)
(* and so is every other locker.                                           *)
(***************************************************************************)
C15_PriceOnly ==
    [][/\ \A d \in Dashboards, k \in LockerIds, p \in BlurPrices :
             SavePrice(d, k, p)
                 => \E w \in BagToSet(pending') :
                       /\ Issued(w)
                       /\ w.by = "savePrice"
                       /\ w.key = k
                       /\ w.data.pricePerHour = p
                       /\ store' = store
       /\ \A w \in BagToSet(pending) :
             Committed(w) /\ w.by = "savePrice"
                 => /\ clock' = clock + 1
                    /\ DOMAIN store' = DOMAIN store
                    /\ \A k \in DOMAIN store \ {w.key} : store'[k] = store[k]
                    /\ DOMAIN store'[w.key] = DOMAIN store[w.key]
                    /\ store'[w.key].pricePerHour = w.data.pricePerHour
                    /\ store'[w.key].lastUpdated = clock'
                    /\ \A f \in DOMAIN store[w.key] \ {"pricePerHour", "lastUpdated"} :
                          store'[w.key][f] = store[w.key][f]]_vars

\* a negative price has been committed on a locker that had been reserved
\* and unlocked by the other writers: the reservation, the status and the
\* lock bit are still there
C15_NegativePriceSaved ==
    /\ ev.kind = "commit"
    /\ ev.by = "savePrice"
    /\ <<"A">> \in DOMAIN store
    /\ store[<<"A">>] = [SeedDoc(<<"A">>) EXCEPT !.pricePerHour = 0 - 5,
                                                !.lastUpdated = 3,
                                                !.lockState = 1,
                                                !.status = "reserved",
                                                !.reservationUntil = ReservedUntil]

(***************************************************************************)
(* What a reader of the page calls a parseable time, and its instant.      *)
(***************************************************************************)
Parseable(r, f) ==
    /\ f \in DOMAIN r
    /\ \/ r[f].type = "timestamp"
       \/ r[f].type = "string" /\ r[f].form = "iso"

\* milliseconds since the epoch
Instant(value) ==
    IF value.type = "timestamp"
    THEN value.seconds * 1000 + value.nanoseconds \div 1000000
    ELSE value.at[1] * 86400000 + value.at[2] * 3600000 + value.at[3] * 60000
             + value.at[4] * 1000 + value.at[5]

\* the places in the list of the reservations that count for the average
Qualifying(rs) ==
    {i \in 1..Len(rs) :
        /\ Parseable(rs[i], "startAt")
        /\ Parseable(rs[i], "endAt")
        /\ Instant(rs[i].endAt) > Instant(rs[i].startAt)}

RECURSIVE TotalMs(_, _)
TotalMs(rs, places) ==
    IF places = {} THEN 0
    ELSE LET i == CHOOSE j \in places : TRUE
         IN  Instant(rs[i].endAt) - Instant(rs[i].startAt)
                 + TotalMs(rs, places \ {i})

(***************************************************************************)
(* C16.  For every list of reservations the average duration is            *)
(* unavailable exactly when no reservation of the list has a parseable     *)
(* start and a parseable end with the end after the start.                 *)
(***************************************************************************)
C16_UnavailableIff ==
    AvgDurationMin(analytics.reservations) = Unavailable
        <=> Qualifying(analytics.reservations) = {}

\* three reservations, none of which counts: no end, an end that does not
\* parse, an end equal to the start
C16_NothingQualifies ==
    /\ ~analytics.loading
    /\ analytics.reservations =
          <<TimedReservation(Timestamp(0, 0), Absent),
            TimedReservation(Timestamp(0, 0), OtherString),
            TimedReservation(Timestamp(3600, 0), IsoString(0, 1, 0, 0, 0))>>
    /\ AvgDurationMin(analytics.reservations) = Unavailable

(***************************************************************************)
(* C17.  When some reservation qualifies, the average duration is the sum  *)
(* of end - start over exactly the qualifying reservations, in minutes,    *)
(* divided by their number; a reservation that does not qualify (zero or   *)
(* negative duration, start or end missing or unparseable) changes neither *)
(* the sum nor the divisor: without it the average is the same.            *)
(***************************************************************************)
Without(rs, i) == SubSeq(rs, 1, i - 1) \o SubSeq(rs, i + 1, Len(rs))

C17_MeanOfQualifying ==
    LET rs == analytics.reservations
        places == Qualifying(rs)
    IN  /\ places # {}
            => AvgDurationMin(rs)
                   = Minutes(TotalMs(rs, places), 60000 * Cardinality(places))
        /\ \A i \in (1..Len(rs)) \ places :
               AvgDurationMin(Without(rs, i)) = AvgDurationMin(rs)

\* a 60-minute and a 90-minute reservation and one that ends an hour before
\* it starts: the average is 75 minutes, (60 + 90) / 2
C17_SeventyFive ==
    /\ analytics.reservations =
          <<TimedReservation(Timestamp(0, 0), IsoString(0, 1, 0, 0, 0)),
            TimedReservation(Timestamp(3600, 0), Timestamp(0, 0)),
            TimedReservation(IsoString(0, 0, 0, 0, 0), IsoString(0, 1, 30, 0, 0))>>
    /\ AvgDurationMin(analytics.reservations) = Minutes(150 * 60000, 2 * 60000)

(***************************************************************************)
(* C18.  How a time is written on the wire does not change the average:    *)
(* with the start or the end of any reservation rewritten from a Timestamp *)
(* to the ISO string of the same instant, or from an ISO string to the     *)
(* Timestamp of the same instant, the average duration is the same; a      *)
(* Timestamp start with an ISO end one hour later gives 60 minutes, as     *)
(* the same instants given as two Timestamps do.                           *)
(***************************************************************************)
\* the same instant in the other representation
Reencoded(value) ==
    LET ms == Instant(value)
    IN  IF value.type = "timestamp"
        THEN IsoString(ms \div 86400000, (ms \div 3600000) % 24,
                       (ms \div 60000) % 60, (ms \div 1000) % 60, ms % 1000)
        ELSE Timestamp(ms \div 1000, (ms % 1000) * 1000000)

C18_SameInstantSameAverage ==
    LET rs == analytics.reservations
    IN  /\ \A i \in 1..Len(rs), f \in {"startAt", "endAt"} :
               Parseable(rs[i], f)
                   => /\ Instant(Reencoded(rs[i][f])) = Instant(rs[i][f])
                      /\ Reencoded(rs[i][f]).type # rs[i][f].type
                      /\ AvgDurationMin([rs EXCEPT ![i][f] = Reencoded(@)])
                             = AvgDurationMin(rs)
        /\ AvgDurationMin(<<TimedReservation(Timestamp(0, 0),
                                             IsoString(0, 1, 0, 0, 0))>>)
               = AvgDurationMin(<<TimedReservation(Timestamp(0, 0),
                                                   Timestamp(3600, 0))>>)

\* the one reservation on the page starts at a Timestamp and ends at the
\* ISO string of one hour later: 60 minutes
C18_MixedPair ==
    /\ analytics.reservations =
          <<TimedReservation(Timestamp(0, 0), IsoString(0, 1, 0, 0, 0))>>
    /\ AvgDurationMin(analytics.reservations) = Minutes(60 * 60000, 60000)

(***************************************************************************)
(* C19.  The peak hour is the lowest hour of the day whose bucket holds    *)
(* the largest count of start hours - buckets 3, 5, 5, 0, ... give hour 1, *)
(* not 2 - and it is unavailable exactly when every bucket is zero, which  *)
(* is when no reservation has a parseable start.                           *)
(***************************************************************************)
\* how many reservations of the list start, parseably, in hour h of the
\* browser's day
StartsIn(rs, h) ==
    Cardinality({i \in 1..Len(rs) :
                    /\ Parseable(rs[i], "startAt")
                    /\ (Instant(rs[i].startAt) \div 3600000 + TimeZoneHours) % 24 = h})

C19_FirstMaximum ==
    LET rs == analytics.reservations
        peak == PeakHour(rs)
    IN  /\ peak = Unavailable <=> \A h \in 0..23 : StartsIn(rs, h) = 0
        /\ peak = Unavailable
              <=> \A i \in 1..Len(rs) : ~Parseable(rs[i], "startAt")
        /\ peak # Unavailable
              => /\ peak.hour \in 0..23
                 /\ \A h \in 0..23 : StartsIn(rs, h) <= StartsIn(rs, peak.hour)
                 /\ \A h \in 0..23 :
                       StartsIn(rs, h) = StartsIn(rs, peak.hour) => peak.hour <= h
        /\ PeakOf([h \in 0..23 |-> CASE h = 0 -> 3
                                     [] h \in {1, 2} -> 5
                                     [] OTHER -> 0]) = Hour(1)

\* a tie: two starts in hour 2 of the browser's day arrived before two in
\* hour 1, and the peak is hour 1 (the list is newest first)
C19_TieToLowest ==
    /\ analytics.reservations =
          <<TimedReservation(Timestamp(0, 0), Absent),
            TimedReservation(Timestamp(0, 0), Absent),
            TimedReservation(IsoString(0, 1, 0, 0, 0), Absent),
            TimedReservation(Timestamp(3600, 0), Absent)>>
    /\ HourCounts(analytics.reservations)[1] = 2
    /\ HourCounts(analytics.reservations)[2] = 2
    /\ PeakHour(analytics.reservations) = Hour(1)

(***************************************************************************)
(* C20.  The top lockers are at most 5 entries, each a different locker    *)
(* id with the exact number of the list's reservations that carry it, in   *)
(* descending order of count; of two lockers with the same count the one   *)
(* met first in the list comes first, whatever the id looks like;          *)
(* reservations with no locker id or an empty one are not counted; and the *)
(* entries left out have no more reservations than those kept.             *)
(***************************************************************************)
\* the places of the list that carry the locker id
PlacesOf(rs, id) ==
    {n \in 1..Len(rs) : "lockerId" \in DOMAIN rs[n] /\ rs[n].lockerId = id}

FirstPlace(rs, id) ==
    CHOOSE n \in PlacesOf(rs, id) : \A m \in PlacesOf(rs, id) : n <= m

BookedIn(rs) ==
    {rs[n].lockerId : n \in {m \in 1..Len(rs) : "lockerId" \in DOMAIN rs[m]}}
        \ {<< >>}

C20_TopFive ==
    LET rs == analytics.reservations
        top == TopLockers(rs)
        kept == {top[i].lockerId : i \in DOMAIN top}
    IN  /\ Len(top) <= 5
        /\ Len(top) = IF Cardinality(BookedIn(rs)) < 5
                      THEN Cardinality(BookedIn(rs)) ELSE 5
        /\ kept \subseteq BookedIn(rs)
        /\ \A i, j \in DOMAIN top : i # j => top[i].lockerId # top[j].lockerId
        /\ \A i \in DOMAIN top :
               top[i].count = Cardinality(PlacesOf(rs, top[i].lockerId))
        /\ \A id \in BookedIn(rs) \ kept, i \in DOMAIN top :
               Cardinality(PlacesOf(rs, id)) <= top[i].count
        /\ \A i, j \in DOMAIN top :
               i < j => /\ top[i].count >= top[j].count
                        /\ top[i].count = top[j].count
                              => FirstPlace(rs, top[i].lockerId)
                                     < FirstPlace(rs, top[j].lockerId)

(***************************************************************************)
(* C21.  The per-day series has exactly one entry for each UTC calendar    *)
(* date on which some reservation with a parseable creation time was       *)
(* created, written YYYY-MM-DD; its count is the number of such            *)
(* reservations on that date; the entries are in ascending order of date;  *)
(* and the counts add up to the number of reservations with a parseable    *)
(* creation time.                                                          *)
(***************************************************************************)
\* the UTC calendar dates around the epoch, by their number of days after it
CalendarDate ==
    [day \in (0 - 1)..2 |->
        CASE day = 0 - 1 -> <<"1", "9", "6", "9", "-", "1", "2", "-", "3", "1">>
          [] day = 0 -> <<"1", "9", "7", "0", "-", "0", "1", "-", "0", "1">>
          [] day = 1 -> <<"1", "9", "7", "0", "-", "0", "1", "-", "0", "2">>
          [] day = 2 -> <<"1", "9", "7", "0", "-", "0", "1", "-", "0", "3">>]

\* the places of the list created, parseably, on the UTC day
CreatedOn(rs, day) ==
    {n \in 1..Len(rs) :
        /\ Parseable(rs[n], "createdAt")
        /\ Instant(rs[n].createdAt) \div 86400000 = day}

DaysOf(rs) == {day \in DOMAIN CalendarDate : CreatedOn(rs, day) # {}}

RECURSIVE CountSum(_)
CountSum(series) ==
    IF series = << >> THEN 0 ELSE Head(series)[2] + CountSum(Tail(series))

C21_OneEntryPerUtcDate ==
    LET rs == analytics.reservations
        series == ReservationsPerDay(rs)
    IN  /\ Len(series) = Cardinality(DaysOf(rs))
        /\ \A day \in DaysOf(rs) :
               \E i \in DOMAIN series :
                   series[i] = <<CalendarDate[day], Cardinality(CreatedOn(rs, day))>>
        /\ \A i, j \in DOMAIN series :
               i < j => \E a, b \in DaysOf(rs) :
                           /\ a < b
                           /\ series[i][1] = CalendarDate[a]
                           /\ series[j][1] = CalendarDate[b]
        /\ CountSum(series)
               = Cardinality({n \in 1..Len(rs) : Parseable(rs[n], "createdAt")})

\* two reservations of the same UTC date, one of them half an hour before
\* its end, after one of the day before and one with no creation time: the
\* entry of the date counts 2 and follows that of the day before
C21_SameDateCountsTwo ==
    /\ analytics.reservations =
          <<CreatedReservation(IsoString(0, 23, 30, 0, 0)),
            CreatedReservation(Timestamp(0, 0)),
            CreatedReservation(Absent),
            CreatedReservation(Timestamp(0 - 1800, 0))>>
    /\ ReservationsPerDay(analytics.reservations)
          = <<<<CalendarDate[0 - 1], 1>>, <<CalendarDate[0], 2>>>>

(***************************************************************************)
(* C22.  For every list of reservations the counts of the status           *)
(* breakdown add up to the total number of reservations: each reservation  *)
(* is counted in one bucket, that of its status label, or "unknown" when   *)
(* its status is missing; each bucket is listed once, and the buckets are  *)
(* in descending order of count.                                           *)
(***************************************************************************)
\* the label a reader gives the reservation
BucketOf(r) ==
    IF "status" \in DOMAIN r /\ r.status.type = "string" THEN r.status.text
    ELSE <<"u", "n", "k", "n", "o", "w", "n">>

InBucket(rs, label) == {n \in 1..Len(rs) : BucketOf(rs[n]) = label}

C22_CountsSumToTotal ==
    LET rs == analytics.reservations
        breakdown == StatusBreakdown(rs)
    IN  /\ CountSum(breakdown) = TotalReservations(rs)
        /\ TotalReservations(rs) = Len(rs)
        /\ \A n \in 1..Len(rs) :
               \E i \in DOMAIN breakdown :
                   breakdown[i] = <<BucketOf(rs[n]),
                                    Cardinality(InBucket(rs, BucketOf(rs[n])))>>
        /\ \A i, j \in DOMAIN breakdown :
               i < j => /\ breakdown[i][1] # breakdown[j][1]
                        /\ breakdown[i][2] >= breakdown[j][2]

(***************************************************************************)
(* C23.  Whatever fields of the reservations of a list are missing or      *)
(* unreadable, the six metrics are all produced: the total counts every    *)
(* reservation; the average is taken over the reservations with a readable *)
(* start and end, the peak hour over those with a readable start, the top  *)
(* lockers over those with a locker id, the per-day series over those with *)
(* a readable creation time, and the status breakdown over all of them,    *)
(* those without a status under "unknown".                                 *)
(***************************************************************************)
\* the places of the list whose reservation has the keys, readable
Having(rs, keys) ==
    {n \in 1..Len(rs) : \A f \in keys : Parseable(rs[n], f)}

Identified(rs) ==
    {n \in 1..Len(rs) : "lockerId" \in DOMAIN rs[n] /\ rs[n].lockerId # << >>}

RECURSIVE EntrySum(_)
EntrySum(top) ==
    IF top = << >> THEN 0 ELSE Head(top).count + EntrySum(Tail(top))

C23_LeftOutOnlyWhereLacking ==
    LET rs == analytics.reservations
        m == Metrics(rs)
        timed == Having(rs, {"startAt", "endAt"})
        started == Having(rs, {"startAt"})
    IN  /\ m.totalReservations = Len(rs)
        /\ timed = Qualifying(rs)
        /\ m.avgDurationMin =
               IF timed = {} THEN Unavailable
               ELSE Minutes(TotalMs(rs, timed), 60000 * Cardinality(timed))
        /\ m.peakHour = Unavailable <=> started = {}
        /\ started # {}
               => StartsIn(rs, m.peakHour.hour) = Cardinality(started)
        /\ EntrySum(m.topLockers) = Cardinality(Identified(rs))
        /\ \A n \in Identified(rs) :
               \E i \in DOMAIN m.topLockers :
                   m.topLockers[i].lockerId = rs[n].lockerId
        /\ CountSum(m.reservationsPerDay)
               = Cardinality(Having(rs, {"createdAt"}))
        /\ \A n \in Having(rs, {"createdAt"}) :
               \E i \in DOMAIN m.reservationsPerDay :
                   m.reservationsPerDay[i][1]
                       = CalendarDate[Instant(rs[n].createdAt) \div 86400000]
        /\ CountSum(m.statusBreakdown) = Len(rs)
        /\ \A n \in 1..Len(rs) :
               \E i \in DOMAIN m.statusBreakdown :
                   m.statusBreakdown[i]
                       = <<BucketOf(rs[n]),
                           Cardinality(InBucket(rs, BucketOf(rs[n])))>>

\* a reservation with a start that is no date and a creation time that is
\* null, before one with no start and an end that is a number: the total
\* is 2, one day has one reservation, 2 reservations are of unknown status,
\* and the other metrics have nothing to show
C23_NothingButCreated ==
    /\ analytics.reservations =
          <<Lacking([PlainReservation EXCEPT !.startAt = OtherString,
                                             !.createdAt = NullValue],
                    {"lockerId", "status"}),
            Lacking([PlainReservation EXCEPT !.endAt = NumberValue(5)],
                    {"startAt", "lockerId", "status"})>>
    /\ Metrics(analytics.reservations) =
          [totalReservations |-> 2,
           avgDurationMin |-> Unavailable,
           peakHour |-> Unavailable,
           topLockers |-> << >>,
           reservationsPerDay |-> <<<<CalendarDate[0], 1>>>>,
           statusBreakdown |-> <<<<UnknownName, 2>>>>]

(***************************************************************************)
(* C24.  One dashboard, no other writer.  A committed create stores the    *)
(* door status of its form under the wire field status, and lockState 0,   *)
(* under the trimmed id as key; the push that follows the commit puts in   *)
(* the list, under that key, a row whose id is the key, whose doorStatus   *)
(* is that door status and whose lockState is 0, and which has no field    *)
(* named status.                                                           *)
(***************************************************************************)
\* the last step was the commit of a create, and k is the key it wrote
JustCreated(k) ==
    /\ ev.kind = "commit"
    /\ ev.by = "addLocker"
    /\ k \in DOMAIN store
    /\ store[k].lastUpdated = clock

C24_AliasesRoundTrip ==
    [][/\ \A w \in BagToSet(pending) :
             Committed(w) /\ w.by = "addLocker"
                 => /\ w.key \in DOMAIN store'
                    /\ store'[w.key].status = w.data.status
                    /\ store'[w.key].lockState = 0
                    /\ store'[w.key].lastUpdated = clock'
       /\ \A d \in Dashboards, k \in LockerIds :
             OnSnapshot(d) /\ JustCreated(k)
                 => /\ k \in DOMAIN lockers'[d]
                    /\ lockers'[d][k].id = k
                    /\ "doorStatus" \in DOMAIN lockers'[d][k]
                    /\ lockers'[d][k].doorStatus = store[k].status
                    /\ lockers'[d][k].lockState = 0
                    /\ "status" \notin DOMAIN lockers'[d][k]]_vars

\* a locker created with the door open has reached the list: the row under
\* its key says doorStatus open, lockState 0
C24_OpenDoorListed ==
    /\ clock = 1
    /\ pending = EmptyBag
    /\ DOMAIN store = {<<"A">>}
    /\ store[<<"A">>].status = "open"
    /\ DOMAIN lockers["d1"] = {<<"A">>}
    /\ lockers["d1"][<<"A">>] =
          [id |-> <<"A">>, label |-> <<"A">>, location |-> "Unknown",
           doorStatus |-> "open", lockState |-> 0, reservationUntil |-> Null,
           lastUpdated |-> 1, pricePerHour |-> 20, size |-> "M"]

(***************************************************************************)
(* C25.  A page that mounts subscribes, once; its subscription ends only   *)
(* when it fails or when the page is torn down, and a page that is torn    *)
(* down has none; from then on no push changes the list or the loading     *)
(* flag the page had.  The same holds of the Analytics page and its        *)
(* reservations.                                                           *)
(***************************************************************************)
C25_ReleasedOnTeardown ==
    /\ [](\A d \in Dashboards : view[d] = "login" => ~listening[d])
    /\ [][/\ \A d \in Dashboards :
                /\ view'[d] # view[d] /\ view'[d] # "login" => listening'[d]
                /\ ~listening[d] /\ listening'[d] => view'[d] # view[d]
                /\ listening[d] /\ ~listening'[d] /\ view'[d] # "login"
                      => SnapshotError(d)
                /\ view[d] = "login" /\ view'[d] = "login"
                      => lockers'[d] = lockers[d] /\ loading'[d] = loading[d]
                /\ ~listening[d] /\ ~listening'[d]
                      => lockers'[d] = lockers[d] /\ loading'[d] = loading[d]
          /\ ~analytics.listening => analytics' = analytics]_vars

\* the dashboard left the Lockers page for the login page, and the lock bit
\* of the locker it listed has changed since: the list still has the old one
C25_StaleAfterTeardown ==
    /\ view["d1"] = "login"
    /\ ~listening["d1"]
    /\ ~loading["d1"]
    /\ <<"A">> \in DOMAIN lockers["d1"]
    /\ lockers["d1"][<<"A">>].lockState = 0
    /\ <<"A">> \in DOMAIN store
    /\ store[<<"A">>].lockState = 1
    /\ ~analytics.listening
    /\ analytics.reservations = <<PlainReservation>>

(***************************************************************************)
(* C26.  A toggle and a price update (from a row or from a bulk apply)     *)
(* have only lastUpdated in common.  While a toggle and a price update of  *)
(* the same locker are both in flight, whichever of the two the store      *)
(* applies first, after both the document holds the lockState of the       *)
(* toggle and the price of the update, and no other document has changed;  *)
(* and the commit of either leaves the other's field, and every other      *)
(* locker, as it was.                                                      *)
(***************************************************************************)
PriceUpdates == {"savePrice", "applyGlobal"}

\* the collection once the store has applied first and then second
Both(first, second) ==
    Applied(Applied(store, first, clock + 1), second, clock + 2)

C26_ToggleAndPriceBothApply ==
    /\ [](\A t, s \in InFlight :
             /\ t.by = "toggleLockState"
             /\ s.by \in PriceUpdates
             /\ t.key = s.key
             /\ t.key \in DOMAIN store
             => /\ DOMAIN t.data \cap DOMAIN s.data = {"lastUpdated"}
                /\ \A after \in {Both(t, s), Both(s, t)} :
                      /\ after[t.key].lockState = t.data.lockState
                      /\ after[t.key].pricePerHour = s.data.pricePerHour
                      /\ DOMAIN after = DOMAIN store
                      /\ \A k \in DOMAIN store \ {t.key} : after[k] = store[k])
    /\ [][\A w \in BagToSet(pending) :
             /\ Committed(w) /\ w.by = "toggleLockState"
                   => /\ store'[w.key].lockState = w.data.lockState
                      /\ store'[w.key].pricePerHour = store[w.key].pricePerHour
                      /\ \A k \in DOMAIN store \ {w.key} : store'[k] = store[k]
             /\ Committed(w) /\ w.by \in PriceUpdates
                   => /\ store'[w.key].pricePerHour = w.data.pricePerHour
                      /\ "lockState" \in DOMAIN store[w.key]
                            => store'[w.key].lockState = store[w.key].lockState
                      /\ \A k \in DOMAIN store \ {w.key} : store'[k] = store[k]]_vars

\* d2's toggle and d1's price update of locker A were in flight together
\* and the store applied the toggle last: A is unlocked at the new price,
\* B is as it was
C26_BothTookEffect ==
    /\ pending = EmptyBag
    /\ clock = 2
    /\ ev.kind = "commit"
    /\ ev.by = "toggleLockState"
    /\ DOMAIN store = {<<"A">>, <<"B">>}
    /\ store[<<"A">>] = [SeedDoc(<<"A">>) EXCEPT !.lockState = 1,
                                                !.pricePerHour = 0 - 5,
                                                !.lastUpdated = 2]
    /\ store[<<"B">>] = SeedDoc(<<"B">>)

(***************************************************************************)
(* C27.  A create whose trimmed id is the key of a document that exists    *)
(* leaves that document's lockState, reservationUntil, price and door      *)
(* status as they were.                                                    *)
(***************************************************************************)
Kept == {"lockState", "reservationUntil", "pricePerHour", "status"}

C27_ExistingLeftAlone ==
    [][\A w \in BagToSet(pending) :
          Committed(w) /\ w.by = "addLocker" /\ w.key \in DOMAIN store
              => /\ w.key \in DOMAIN store'
                 /\ \A f \in Kept \cap DOMAIN store[w.key] :
                       /\ f \in DOMAIN store'[w.key]
                       /\ store'[w.key][f] = store[w.key][f]]_vars

(***************************************************************************)
(* C28.  On every page that subscribes, the first outcome of the           *)
(* subscription, a snapshot or an error, leaves the loading flag false,    *)
(* and a loading flag that is false stays false.                           *)
(***************************************************************************)
C28_LoadingEnds ==
    [][/\ \A d \in Dashboards :
             /\ OnSnapshot(d) \/ SnapshotError(d) => ~loading'[d]
             /\ ~loading[d] => ~loading'[d]
       /\ (\E rows \in SubscribeRows : OnReservations(rows)) \/ ReservationsError
             => ~analytics'.loading
       /\ ~analytics.loading => ~analytics'.loading]_vars

(***************************************************************************)
(* C29.  The documents of the collection are the same after every step     *)
(* but the commit of a create or of a delete.  The store commits a toggle, *)
(* a price update or an update of a bulk apply only on a document that     *)
(* exists; one that names a document that is gone leaves flight only by    *)
(* being rejected, and the document is not there afterwards.               *)
(***************************************************************************)
Updates == {"toggleLockState", "savePrice", "applyGlobal"}

C29_OnlyCreateAndDelete ==
    [][/\ DOMAIN store' # DOMAIN store
             => \E w \in BagToSet(pending) :
                   Committed(w) /\ w.by \in {"addLocker", "removeLocker"}
       /\ \A w \in BagToSet(pending) :
             /\ Committed(w) /\ w.by \in Updates
                   => w.key \in DOMAIN store /\ DOMAIN store' = DOMAIN store
             /\ w.by \in Updates /\ w.key \notin DOMAIN store
                   /\ pending' = Less(pending, w)
                   => ev'.kind = "reject" /\ w.key \notin DOMAIN store']_vars

\* locker A has been deleted, and the update that a bulk apply from the
\* Pricing page's stale list sent for it has been rejected: the collection
\* is still empty, the list still has A
C29_StaleBulkRejected ==
    /\ ev.kind = "reject"
    /\ ev.by = "applyGlobal"
    /\ store = EmptyStore
    /\ pending = EmptyBag
    /\ DOMAIN lockers["d2"] = {<<"A">>}

(***************************************************************************)
(* C30.  A confirmed bulk apply issues, in the step that invokes it, one   *)
(* update for each locker of the list the page then has, each carrying     *)
(* the price the input then has; an update in flight keeps its price       *)
(* whatever the input becomes; and when the store commits it, the locker   *)
(* it names has that price and every other locker, one created after the   *)
(* invocation included, has the price it had.                              *)
(***************************************************************************)
BulkInFlight(B) == {w \in BagToSet(B) : w.by = "applyGlobal"}

\* the writes the step put in flight
Sent == {w \in BagToSet(pending') : CopiesIn(w, pending') > CopiesIn(w, pending)}

C30_PriceAtInvocation ==
    [][/\ \A d \in Dashboards :
             ApplyGlobal(d, TRUE)
                 => /\ \A k \in DOMAIN lockers[d] :
                          \E w \in Sent : w.key = lockers[d][k].id
                    /\ \A w \in Sent :
                          /\ w.by = "applyGlobal"
                          /\ w.op = "updateDoc"
                          /\ w.data.pricePerHour = globalPrice[d]
                          /\ \E k \in DOMAIN lockers[d] : w.key = lockers[d][k].id
                    /\ store' = store
       /\ (\E p \in InputPrices : SetGlobalPrice("d2", p))
             => pending' = pending /\ store' = store
       /\ ~(\E d \in Dashboards : ApplyGlobal(d, TRUE))
             => \A w \in BulkInFlight(pending') :
                   \E x \in BulkInFlight(pending) :
                      x.key = w.key /\ x.data = w.data
       /\ \A w \in BagToSet(pending) :
             Committed(w) /\ w.by = "applyGlobal"
                 => /\ store'[w.key].pricePerHour = w.data.pricePerHour
                    /\ DOMAIN store' = DOMAIN store
                    /\ \A k \in DOMAIN store \ {w.key} : store'[k] = store[k]]_vars

\* the bulk apply was invoked at 30 with locker A in the list; since then
\* the input has gone back to 20 and locker B has been created at 25; the
\* update has been committed: A is at 30, B at 25
C30_AppliedAsInvoked ==
    /\ ev.kind = "commit"
    /\ ev.by = "applyGlobal"
    /\ pending = EmptyBag
    /\ ~saving["d2"]
    /\ globalPrice["d2"] = 20
    /\ DOMAIN store = {<<"A">>, <<"B">>}
    /\ store[<<"A">>].pricePerHour = 30
    /\ store[<<"A">>].lastUpdated = 2
    /\ store[<<"B">>].pricePerHour = 25
    /\ store[<<"B">>].lastUpdated = 1
    /\ DOMAIN lockers["d2"] = {<<"A">>}

====
